---- MODULE Spec2Model ----
(***************************************************************************)
(* A model of WebpackAssetsManifest (src/src/plugin.ts): the manifest      *)
(* store (set, setRaw, has, get, delete), the customize waterfall, the     *)
(* merge of an existing manifest file and the lock around the emit and     *)
(* writeTo steps; builds that share a destination file or a store; the     *)
(* discovery and report phases; the extension points; the sorting of the   *)
(* serialized manifest.                                                    *)
(*                                                                         *)
(* JavaScript values are records [t, s, a, f]: t is the type tag ("str",   *)
(* "null", "arr", "obj"), s the text of a string, a the items of an array  *)
(* and f the fields of an object, a sequence of [k, v] pairs in insertion  *)
(* order.  Manifest keys are sequences of characters, so that fixKey can   *)
(* be modelled character by character.  The store is the sequence of its   *)
(* [k, v] entries in insertion order.                                      *)
(***************************************************************************)
EXTENDS Integers, Sequences, FiniteSets, TLC

VARIABLES
  opts,       \* this.options: [merge, integrity, publicPath]
  assets,     \* this.assets
  isMerging,  \* this.#isMerging
  pc,         \* where the build is: the await it is suspended at, or how it ended
  lockHeld,   \* whether the lock file of the output path exists and is this build's
  emitted,    \* whether compilation.emitAsset was called for the manifest
  fault,      \* the failure the environment or a callback produced, if any
  error,      \* the error the emit step or writeTo rejected with, if any
  merged,     \* the last merge that ran to its end: the store before it and the data
  calls,      \* number of set and setRaw calls made so far outside the merge
  last,       \* the last call of set, setRaw or delete, and the store before it
  \* two builds with a store each that merge into one destination file
  disk,       \* the entries of the manifest file at the destination
  lockOwner,  \* the build whose lock file exists for the destination, or NoBuild
  proc,       \* per build: position, this.assets, its fresh entries, the emitted text
  \* plugin instances constructed with one assets object
  heap,       \* the objects that back a store: reference -> entries
  inst,       \* per instance: this.assets and this.options.assets (references), position
  watching,   \* whether the compilers run in watch mode
  \* the discovery and report phases of one compilation
  comp,       \* the compilation: its assets, chunk and entry-point file lists
  assetNames, \* this.assetNames: key -> asset name, in insertion order
  \* one instance, its option callbacks and the compilers it is applied to
  taps,       \* per hook: how many times the callback given in options is tapped
  hstate,     \* per compiler: position of its build, whether writeTo runs, its merge
  hlog,       \* per compiler, and for user code: the hook calls made, in order
  \* serialization
  sortManifest, \* options.sortManifest
  serialized,   \* the result of toString(): the keys in the order they are listed
  \* setup and the lifecycle of one compiler
  cfg,        \* the options given to the constructor, as far as setup reads them
  wired,      \* the compiler hooks apply() has tapped
  life,       \* the position in the compiler's lifecycle and what the plugin did
  \* decisions computed from a compilation
  given,      \* the arguments of the function under study
  answer      \* its result

single == <<opts, assets, isMerging, pc, lockHeld, emitted, fault, error, merged,
            calls, last>>

multi == <<disk, lockOwner, proc>>

shared == <<heap, inst, watching>>

discovery == <<comp, assetNames>>

hooks == <<taps, hstate, hlog>>

sorting == <<sortManifest, serialized>>

setup == <<cfg, wired, life>>

decision == <<given, answer>>

extras == <<setup, decision>>

world == <<multi, shared, discovery, hooks, sorting, extras>>

vars == <<single, world>>

----------------------------------------------------------------------------
(* Bounds *)

\* Calls of set and setRaw made by user code and by the report phase in one
\* behaviour.
MaxCalls == 1

----------------------------------------------------------------------------
(* JavaScript values *)

Str(s) == [t |-> "str", s |-> s, a |-> <<>>, f |-> <<>>]
Null == [t |-> "null", s |-> "", a |-> <<>>, f |-> <<>>]
Undefined == [t |-> "undefined", s |-> "", a |-> <<>>, f |-> <<>>]
Arr(a) == [t |-> "arr", s |-> "", a |-> a, f |-> <<>>]
Obj(f) == [t |-> "obj", s |-> "", a |-> <<>>, f |-> f]
Field(k, v) == [k |-> k, v |-> v]

\* typeof input
TypeOf(input) == IF input.t \in {"obj", "arr", "null"} THEN "object" ELSE input.t

\* Array.isArray(input)
IsArray(input) == input.t = "arr"

isObject(input) == input.t # "null" /\ TypeOf(input) = "object" /\ ~IsArray(input)

\* Truthiness of a value: undefined, null and the empty string are falsy.
Truthy(v) == ~(v.t \in {"undefined", "null"} \/ (v.t = "str" /\ v.s = ""))

----------------------------------------------------------------------------
(* Keys *)

K_back == <<"a", "\\", "b">>
K_slash == <<"a", "/", "b">>
K_c == <<"c">>

\* The keys user code and builds use.
Keys == {K_back, K_slash, K_c}

\* a fixKey that leaves the backslashes in place
fixKeyIdentity(key) == key

fixKey(key) == [i \in DOMAIN key |-> IF key[i] = "\\" THEN "/" ELSE key[i]]

----------------------------------------------------------------------------
(* The store: Object.hasOwn, property read, assignment and delete on        *)
(* this.assets                                                              *)

hasOwn(store, key) == \E i \in DOMAIN store : store[i].k = key

\* store[key]
Prop(store, key) ==
  IF hasOwn(store, key)
  THEN store[CHOOSE i \in DOMAIN store : store[i].k = key].v
  ELSE Undefined

Assign(store, key, value) ==
  IF hasOwn(store, key)
  THEN [i \in DOMAIN store |->
          IF store[i].k = key THEN [k |-> key, v |-> value] ELSE store[i]]
  ELSE Append(store, [k |-> key, v |-> value])

RECURSIVE Remove(_, _)
Remove(store, key) ==
  IF store = <<>> THEN <<>>
  ELSE IF Head(store).k = key THEN Tail(store)
  ELSE <<Head(store)>> \o Remove(Tail(store), key)

KeysOf(store) == {store[i].k : i \in DOMAIN store}

----------------------------------------------------------------------------
(* Options and inputs *)

\* options.merge: false, true or 'customize'
MergeModes == {"off", "on", "customize"}

\* options.publicPath: unset ("") or a prefix that is no absolute URL, so that
\* new URL(filename, base) throws and resolvePath returns base + filename
PublicPaths == {"", "p/"}

Options == [merge : MergeModes, integrity : BOOLEAN, publicPath : PublicPaths]

\* The values user code and builds pass to set and setRaw.
ObjA12 == Obj(<<Field("a", Arr(<<1, 2>>))>>)
ObjA3 == Obj(<<Field("a", Arr(<<3>>))>>)
Values == {Str("x.js"), ObjA3}

\* The asset being processed (this.currentAsset) with the digest recorded
\* under info[integrityPropertyName], or none.
NoAsset == [present |-> FALSE, hasDigest |-> FALSE, digest |-> ""]
CurrentAssets ==
  {NoAsset,
   [present |-> TRUE, hasDigest |-> FALSE, digest |-> ""],
   [present |-> TRUE, hasDigest |-> TRUE, digest |-> "sha256-XYZ"]}

\* What the taps of hooks.customize make of one call: r.t = "throw" is a tap
\* throwing; otherwise r is the value the last tap returned ("undefined": no
\* tap, or every tap returned undefined).
HookRet(t, hasKey, key, hasValue, value) ==
  [t |-> t, hasKey |-> hasKey, key |-> key, hasValue |-> hasValue, value |-> value]
HookResults ==
  {HookRet("undefined", FALSE, K_c, FALSE, Null),
   HookRet("throw", FALSE, K_c, FALSE, Null),
   HookRet("false", FALSE, K_c, FALSE, Null),
   HookRet("obj", FALSE, K_c, FALSE, Null),
   HookRet("obj", TRUE, K_c, FALSE, Null),
   HookRet("obj", TRUE, K_back, TRUE, Str("W")),
   HookRet("obj", FALSE, K_c, TRUE, Str("x.js"))}

----------------------------------------------------------------------------
(* The methods of the manifest *)

\* resolvePath(filename, publicPath) for a string publicPath
getPublicPath(o, filename) ==
  IF o.publicPath # "" THEN o.publicPath \o filename ELSE filename

\* SyncWaterfallHook.call: a tap returning undefined leaves the entry as is
customizeCall(r, entry) == IF r.t = "undefined" THEN entry ELSE r

\* a set without the entry === false test
isFalseMissing(entry) == FALSE

\* entry === false
isFalse(entry) == entry.t = "false"

\* a predicate asking for both fields
isKeyValuePairBoth(input) == isObject(input) /\ (input.hasKey /\ input.hasValue)

isKeyValuePair(input) == isObject(input) /\ (input.hasKey \/ input.hasValue)

\* a setRaw that normalizes the key
setRawFixed(store, key, value) == Assign(store, fixKey(key), value)

setRaw(store, key, value) == Assign(store, key, value)

\* a lookup that never finds the digest
DigestNone(cur) == ""

\* this.currentAsset?.info[this.options.integrityPropertyName] ?? ''
Digest(cur) == IF cur.present /\ cur.hasDigest THEN cur.digest ELSE ""

Wrapped(value, cur) ==
  Obj(<<Field("src", value), Field("integrity", Str(Digest(cur)))>>)

\* set(key, value) past the raw-merge branch, with r the outcome of the
\* customize taps: the store after the call, whether hooks.customize was
\* called and whether the call threw
setCustomized(store, o, cur, key, value, r) ==
    LET fixedKey == fixKey(key)
        publicPath == IF TypeOf(value) = "str"
                      THEN Str(getPublicPath(o, value.s)) ELSE value
        entry == customizeCall(r, HookRet("obj", TRUE, fixedKey, TRUE, publicPath))
        ekey == IF entry.hasKey THEN entry.key ELSE fixedKey
        evalue == IF entry.hasValue THEN entry.value ELSE publicPath
    IN  IF entry.t = "throw"
        THEN [assets |-> store, called |-> TRUE, threw |-> TRUE]
        ELSE IF isFalse(entry)
        THEN [assets |-> store, called |-> TRUE, threw |-> FALSE]
        ELSE IF isKeyValuePair(entry)
        THEN [assets |->
                setRaw(store, ekey,
                       IF evalue = publicPath /\ o.integrity
                       THEN Wrapped(evalue, cur) ELSE evalue),
              called |-> TRUE, threw |-> FALSE]
        ELSE [assets |-> setRaw(store, fixedKey, publicPath),
              called |-> TRUE, threw |-> FALSE]

\* a set without the raw-merge branch
setNeverRaw(store, o, merging, cur, key, value, r) ==
  setCustomized(store, o, cur, key, value, r)

\* set(key, value): setRaw while a merge without customize is running
set(store, o, merging, cur, key, value, r) ==
  IF merging /\ o.merge # "customize"
  THEN [assets |-> setRaw(store, key, value), called |-> FALSE, threw |-> FALSE]
  ELSE setCustomized(store, o, cur, key, value, r)

has(store, key) == hasOwn(store, key) \/ hasOwn(store, fixKey(key))

get(store, key, defaultValue) ==
  IF Truthy(Prop(store, key)) THEN Prop(store, key)
  ELSE IF Truthy(Prop(store, fixKey(key))) THEN Prop(store, fixKey(key))
  ELSE defaultValue

\* delete(key): the store after the call and the value returned
delete(store, key) ==
  IF hasOwn(store, key)
  THEN [assets |-> Remove(store, key), ret |-> TRUE]
  ELSE IF hasOwn(store, fixKey(key))
  THEN [assets |-> Remove(store, fixKey(key)), ret |-> TRUE]
  ELSE [assets |-> store, ret |-> FALSE]

----------------------------------------------------------------------------
(* deepmerge(oldValue, currentValue, { arrayMerge }) *)

\* deepmerge's default isMergeableObject on data parsed from JSON
isMergeableObject(v) == v.t \in {"obj", "arr"}

\* deepmerge's default arrayMerge, which concatenates
arrayMergeConcat(destArray, srcArray) == Arr(destArray.a \o srcArray.a)

arrayMerge(destArray, srcArray) == srcArray

RECURSIVE deepmerge(_, _)
RECURSIVE mergeObjectLoop(_, _, _, _)

\* the second loop of deepmerge's mergeObject, over the keys of source
mergeObjectLoop(destination, target, sourceFields, i) ==
  IF i > Len(sourceFields) THEN destination
  ELSE
    LET key == sourceFields[i].k
        sv == sourceFields[i].v
        onTarget == target.t = "obj" /\ hasOwn(target.f, key)
    IN  mergeObjectLoop(
          Assign(destination, key,
                 IF onTarget /\ isMergeableObject(sv)
                 THEN deepmerge(Prop(target.f, key), sv) ELSE sv),
          target, sourceFields, i + 1)

mergeObject(target, source) ==
  Obj(mergeObjectLoop(IF target.t = "obj" THEN target.f ELSE <<>>,
                      target, source.f, 1))

deepmerge(target, source) ==
  IF IsArray(source) # IsArray(target) THEN source
  ELSE IF IsArray(source) THEN arrayMerge(target, source)
  ELSE mergeObject(target, source)

----------------------------------------------------------------------------
(* maybeMerge: the loop over the entries of the parsed file *)

\* the body of the loop for the i-th entry of data
mergeStep(store, o, data, rs, i) ==
  LET key == data[i].k
      oldValue == data[i].v
      currentValue == get(store, key, Undefined)
  IN  IF has(store, key)
      THEN IF isObject(oldValue) /\ isObject(currentValue)
           THEN set(store, o, TRUE, NoAsset, key,
                    deepmerge(oldValue, currentValue), rs[i])
           ELSE [assets |-> store, called |-> FALSE, threw |-> FALSE]
      ELSE set(store, o, TRUE, NoAsset, key, oldValue, rs[i])

RECURSIVE mergeLoop(_, _, _, _, _)
\* rs[i] is the outcome of the customize taps for the i-th entry of data
mergeLoop(store, o, data, rs, i) ==
  IF i > Len(data) THEN [assets |-> store, threw |-> FALSE]
  ELSE
    LET step == mergeStep(store, o, data, rs, i)
    IN  IF step.threw THEN [assets |-> step.assets, threw |-> TRUE]
        ELSE mergeLoop(step.assets, o, data, rs, i + 1)

RECURSIVE mergeTrace(_, _, _, _, _)
\* for each entry the loop reaches, whether hooks.customize was called for it
mergeTrace(store, o, data, rs, i) ==
  IF i > Len(data) THEN <<>>
  ELSE
    LET step == mergeStep(store, o, data, rs, i)
    IN  <<step.called>> \o
        (IF step.threw THEN <<>> ELSE mergeTrace(step.assets, o, data, rs, i + 1))

\* The text of the file at the output path: not JSON, or the entries of the
\* object it parses to, in Object.entries order.
ObjOld == Obj(<<Field("a", Arr(<<1, 2>>)), Field("b", Str("o"))>>)
ObjSri == Obj(<<Field("src", Str("x.js")), Field("integrity", Str("sha256-XYZ"))>>)
NotJson == [json |-> FALSE, data |-> <<>>]
Json(data) == [json |-> TRUE, data |-> data]
Artifacts ==
  {NotJson,
   Json(<<Field(K_c, Str("old.js"))>>),
   Json(<<Field(K_slash, ObjOld), Field(K_back, ObjA12)>>),
   Json(<<Field(K_back, ObjOld), Field(K_c, ObjSri)>>)}

\* The outcomes of the customize taps for the entries of data: the taps are
\* reached by the loop only with merge = 'customize'.
HookRuns(o, data) ==
  IF o.merge = "customize"
  THEN [DOMAIN data -> HookResults]
  ELSE [DOMAIN data -> {HookRet("undefined", FALSE, K_c, FALSE, Null)}]

----------------------------------------------------------------------------
(* State *)

NoCall ==
  [op |-> "none", key |-> K_c, value |-> Null,
   r |-> HookRet("undefined", FALSE, K_c, FALSE, Null), cur |-> NoAsset,
   pre |-> <<>>, merging |-> FALSE, called |-> FALSE, ret |-> FALSE,
   threw |-> FALSE]

NoMerge == [done |-> FALSE, pre |-> <<>>, data |-> <<>>]

\* options.assets: the store the instance is constructed with
InitialStores ==
  {<<>>,
   <<Field(K_back, Str(""))>>,
   <<Field(K_back, Str("")), Field(K_slash, ObjA3)>>}

\* The store when the emit step starts, as set and setRaw calls leave it
BuildStores ==
  {<<>>,
   <<Field(K_back, Str("")), Field(K_slash, ObjA3)>>,
   <<Field(K_c, Str("x.js"))>>,
   <<Field(K_slash, ObjA3), Field(K_c, ObjSri)>>}

\* no second build: the variables of the two-build scenario at rest
NoBuild == "none"
MultiIdle == disk = <<>> /\ lockOwner = NoBuild /\ proc = <<>>

\* no instances that share a store
SharedIdle == heap = <<>> /\ inst = <<>> /\ watching = FALSE

\* no compilation
DiscoveryIdle == comp = <<>> /\ assetNames = <<>>

\* no callbacks and no compilers
HooksIdle == taps = <<>> /\ hstate = <<>> /\ hlog = <<>>

\* nothing was serialized
NoOutput == [done |-> FALSE, keys |-> <<>>]

\* no serialization is modelled
SortIdle == sortManifest = "false" /\ serialized = NoOutput

\* no setup is modelled
SetupIdle == cfg = <<>> /\ wired = {} /\ life = <<>>

\* no decision is modelled
DecisionIdle == given = <<>> /\ answer = <<>>

ExtrasIdle == SetupIdle /\ DecisionIdle

\* the variables of the single build at rest
SingleIdle ==
  /\ assets = <<>>
  /\ isMerging = FALSE
  /\ pc = "idle"
  /\ lockHeld = FALSE
  /\ emitted = FALSE
  /\ fault = "none"
  /\ error = "none"
  /\ merged = NoMerge
  /\ calls = 0
  /\ last = NoCall

InitWith(stores) ==
  /\ opts \in Options
  /\ assets \in stores
  /\ isMerging = FALSE
  /\ pc = "idle"
  /\ lockHeld = FALSE
  /\ emitted = FALSE
  /\ fault = "none"
  /\ error = "none"
  /\ merged = NoMerge
  /\ calls = 0
  /\ last = NoCall
  /\ MultiIdle
  /\ SharedIdle
  /\ DiscoveryIdle
  /\ HooksIdle
  /\ SortIdle
  /\ ExtrasIdle

\* User code calls the methods before the emit step and while maybeMerge
\* waits for the file.
CanCall == pc \in {"idle", "reading"}

build == <<pc, lockHeld, emitted, fault, error, merged>>

----------------------------------------------------------------------------
(* Calls of the manifest's methods *)

\* manifest.set(key, value), called by user code: currentAsset is not set
Set(key, value, r) ==
  /\ CanCall /\ calls < MaxCalls
  /\ LET res == set(assets, opts, isMerging, NoAsset, key, value, r)
     IN  /\ assets' = res.assets
         /\ last' = [op |-> "set", key |-> key, value |-> value, r |-> r,
                     cur |-> NoAsset, pre |-> assets, merging |-> isMerging,
                     called |-> res.called, ret |-> FALSE, threw |-> res.threw]
  /\ calls' = calls + 1
  /\ UNCHANGED <<world, opts, isMerging, build>>

\* handleProcessAssetsReport, the body of sourceFilenames.forEach: currentAsset
\* is the asset, the value is its name
ReportSet(cur, key, r) ==
  /\ pc = "idle" /\ calls < MaxCalls
  /\ cur.present
  /\ LET res == set(assets, opts, isMerging, cur, key, Str("x.js"), r)
     IN  /\ assets' = res.assets
         /\ last' = [op |-> "set", key |-> key, value |-> Str("x.js"), r |-> r,
                     cur |-> cur, pre |-> assets, merging |-> isMerging,
                     called |-> res.called, ret |-> FALSE, threw |-> res.threw]
  /\ calls' = calls + 1
  /\ UNCHANGED <<world, opts, isMerging, build>>

\* manifest.setRaw(key, value)
SetRaw(key, value) ==
  /\ CanCall /\ calls < MaxCalls
  /\ assets' = setRaw(assets, key, value)
  /\ last' = [NoCall EXCEPT !.op = "setRaw", !.key = key, !.value = value,
                            !.pre = assets, !.merging = isMerging]
  /\ calls' = calls + 1
  /\ UNCHANGED <<world, opts, isMerging, build>>

\* manifest.delete(key)
Delete(key) ==
  /\ CanCall
  /\ LET res == delete(assets, key)
     IN  /\ assets' = res.assets
         /\ last' = [NoCall EXCEPT !.op = "delete", !.key = key, !.pre = assets,
                                   !.merging = isMerging, !.ret = res.ret]
  /\ UNCHANGED <<world, opts, isMerging, build, calls>>

----------------------------------------------------------------------------
(* emitAssetsManifest and maybeMerge *)

\* an emit step that awaits a promise nothing settles
EmitAssetsManifestStuck ==
  /\ pc = "idle"
  /\ pc' = "suspended"
  /\ last' = NoCall
  /\ UNCHANGED <<world, opts, assets, isMerging, lockHeld, emitted, fault, error, merged, calls>>

\* emitAssetsManifest up to its first await: lock(outputPath) with merge on,
\* maybeMerge (which then does nothing) with merge off
EmitAssetsManifest ==
  /\ pc = "idle"
  /\ pc' = IF opts.merge # "off" THEN "locking" ELSE "emit"
  /\ last' = NoCall
  /\ UNCHANGED <<world, opts, assets, isMerging, lockHeld, emitted, fault, error, merged, calls>>

\* lock resolves; maybeMerge runs up to await readFile
LockGranted ==
  /\ pc = "locking"
  /\ lockHeld' = TRUE
  /\ isMerging' = TRUE
  /\ pc' = "reading"
  /\ UNCHANGED <<world, opts, assets, emitted, fault, error, merged, calls, last>>

\* lock rejects: the lock file stayed another process's for the whole wait
LockTimeout ==
  /\ pc = "locking"
  /\ fault' = "lock"
  /\ error' = "lock"
  /\ pc' = "failed"
  /\ UNCHANGED <<world, opts, assets, isMerging, lockHeld, emitted, merged, calls, last>>

\* a maybeMerge that caught the rejection of readFile and went on to emit:
\* the behaviour C9 rules out
ReadFailedSwallowed ==
  /\ pc = "reading"
  /\ isMerging' = FALSE
  /\ fault' = "read"
  /\ pc' = "emit"
  /\ UNCHANGED <<world, opts, assets, lockHeld, emitted, error, merged, calls, last>>

\* readFile rejects (the file is absent or unreadable): the finally block
\* runs and maybeMerge rejects, which emitAssetsManifest does not catch
ReadFailed ==
  /\ pc = "reading"
  /\ isMerging' = FALSE
  /\ fault' = "read"
  /\ error' = "read"
  /\ pc' = "failed"
  /\ UNCHANGED <<world, opts, assets, lockHeld, emitted, merged, calls, last>>

\* a merge without the finally block: a failure leaves the flag set
ReadDoneNoFinally(content, rs) ==
  /\ pc = "reading"
  /\ last' = NoCall
  /\ IF ~content.json
     THEN /\ fault' = "parse"
          /\ error' = "parse"
          /\ pc' = "failed"
          /\ UNCHANGED <<assets, merged, isMerging>>
     ELSE LET res == mergeLoop(assets, opts, content.data, rs, 1)
          IN  /\ assets' = res.assets
              /\ IF res.threw
                 THEN /\ fault' = "customize"
                      /\ error' = "customize"
                      /\ pc' = "failed"
                      /\ UNCHANGED <<merged, isMerging>>
                 ELSE /\ pc' = "emit"
                      /\ isMerging' = FALSE
                      /\ merged' = [done |-> TRUE, pre |-> assets,
                                    data |-> content.data]
                      /\ UNCHANGED <<fault, error>>
  /\ UNCHANGED <<world, opts, lockHeld, emitted, calls>>

\* readFile resolves with content: JSON.parse, the loop, the finally block
ReadDone(content, rs) ==
  /\ pc = "reading"
  /\ isMerging' = FALSE
  /\ last' = NoCall
  /\ IF ~content.json
     THEN /\ fault' = "parse"
          /\ error' = "parse"
          /\ pc' = "failed"
          /\ UNCHANGED <<assets, merged>>
     ELSE LET res == mergeLoop(assets, opts, content.data, rs, 1)
          IN  /\ assets' = res.assets
              /\ IF res.threw
                 THEN /\ fault' = "customize"
                      /\ error' = "customize"
                      /\ pc' = "failed"
                      /\ UNCHANGED merged
                 ELSE /\ pc' = "emit"
                      /\ merged' = [done |-> TRUE, pre |-> assets,
                                    data |-> content.data]
                      /\ UNCHANGED <<fault, error>>
  /\ UNCHANGED <<world, opts, lockHeld, emitted, calls>>

\* maybeMerge has resolved: compilation.emitAsset, then unlock with merge on
EmitAsset ==
  /\ pc = "emit"
  /\ emitted' = TRUE
  /\ pc' = IF opts.merge # "off" THEN "unlocking" ELSE "emitted"
  /\ UNCHANGED <<world, opts, assets, isMerging, lockHeld, fault, error, merged, calls, last>>

\* unlock resolves (lockfile's unlock reports no error)
Unlocked ==
  /\ pc = "unlocking"
  /\ lockHeld' = FALSE
  /\ pc' = "emitted"
  /\ UNCHANGED <<world, opts, assets, isMerging, emitted, fault, error, merged, calls, last>>

----------------------------------------------------------------------------
(* handleAfterEmit and writeTo *)

\* handleAfterEmit: shouldWriteToDisk decides whether writeTo is called;
\* writeTo runs up to await lock(destination)
AfterEmit(write) ==
  /\ pc = "emitted"
  /\ pc' = IF write THEN "wlocking" ELSE "done"
  /\ UNCHANGED <<world, opts, assets, isMerging, lockHeld, emitted, fault, error, merged, calls, last>>

WriteLockGranted ==
  /\ pc = "wlocking"
  /\ lockHeld' = TRUE
  /\ pc' = "mkdir"
  /\ UNCHANGED <<world, opts, assets, isMerging, emitted, fault, error, merged, calls, last>>

WriteLockTimeout ==
  /\ pc = "wlocking"
  /\ fault' = "wlock"
  /\ error' = "wlock"
  /\ pc' = "failed"
  /\ UNCHANGED <<world, opts, assets, isMerging, lockHeld, emitted, merged, calls, last>>

\* mkdir settles: writeFile is called, or writeTo rejects
Mkdir(ok) ==
  /\ pc = "mkdir"
  /\ IF ok
     THEN pc' = "writing" /\ UNCHANGED <<fault, error>>
     ELSE pc' = "failed" /\ fault' = "mkdir" /\ error' = "mkdir"
  /\ UNCHANGED <<world, opts, assets, isMerging, lockHeld, emitted, merged, calls, last>>

\* writeFile settles: unlock is called, or writeTo rejects
WriteFile(ok) ==
  /\ pc = "writing"
  /\ IF ok
     THEN pc' = "wunlocking" /\ UNCHANGED <<fault, error>>
     ELSE pc' = "failed" /\ fault' = "write" /\ error' = "write"
  /\ UNCHANGED <<world, opts, assets, isMerging, lockHeld, emitted, merged, calls, last>>

WriteUnlocked ==
  /\ pc = "wunlocking"
  /\ lockHeld' = FALSE
  /\ pc' = "done"
  /\ UNCHANGED <<world, opts, assets, isMerging, emitted, fault, error, merged, calls, last>>

----------------------------------------------------------------------------

\* The calls of the manifest's methods, before the emit step and while the
\* merge waits for the file
Init == InitWith(InitialStores)

Next ==
  \/ \E key \in Keys, value \in Values, r \in HookResults : Set(key, value, r)
  \/ \E cur \in CurrentAssets, key \in Keys, r \in HookResults : ReportSet(cur, key, r)
  \/ \E key \in Keys, value \in Values : SetRaw(key, value)
  \/ \E key \in Keys : Delete(key)
  \/ EmitAssetsManifest
  \/ LockGranted

Spec == Init /\ [][Next]_vars

\* The emit step and writeTo of one build
InitBuild == InitWith(BuildStores)

NextBuild ==
  \/ EmitAssetsManifest
  \/ LockGranted
  \/ LockTimeout
  \/ ReadFailed
  \/ \E content \in Artifacts : \E rs \in HookRuns(opts, content.data) : ReadDone(content, rs)
  \/ EmitAsset
  \/ Unlocked
  \/ \E write \in BOOLEAN : AfterEmit(write)
  \/ WriteLockGranted
  \/ WriteLockTimeout
  \/ \E ok \in BOOLEAN : Mkdir(ok)
  \/ \E ok \in BOOLEAN : WriteFile(ok)
  \/ WriteUnlocked

SpecBuild == InitBuild /\ [][NextBuild]_vars

\* The same build when every pending operation settles: lock grants or times
\* out, readFile, mkdir, writeFile and unlock resolve or reject
SpecBuildFair == InitBuild /\ [][NextBuild]_vars /\ WF_vars(NextBuild)

----------------------------------------------------------------------------
(* Two builds, each with its own plugin instance and store, with merge on
   and the same destination file.  The text of the manifest is modelled by
   the entries it lists. *)

Builds == {"A", "B"}

\* what one build's report phase leaves in its store
FreshStores ==
  {<<Field(K_c, Str("x.js"))>>,
   <<Field(K_slash, ObjA3)>>,
   <<Field(K_back, Str("x.js")), Field(K_c, ObjA12)>>}

\* the destination file before the builds: a JSON object
DiskStarts == {<<>>} \cup {a.data : a \in {x \in Artifacts : x.json}}

\* no customize tap is registered
NoTaps(data) == [i \in DOMAIN data |-> HookRet("undefined", FALSE, K_c, FALSE, Null)]

InitMulti ==
  /\ opts \in {o \in Options : o.merge # "off"}
  /\ SingleIdle
  /\ disk \in DiskStarts
  /\ lockOwner = NoBuild
  /\ proc \in [Builds -> {[pc |-> "idle", assets |-> f, fresh |-> f, output |-> <<>>]
                            : f \in FreshStores}]
  /\ SharedIdle
  /\ DiscoveryIdle
  /\ HooksIdle
  /\ SortIdle
  /\ ExtrasIdle

\* emitAssetsManifest of build b: lock(outputPath) resolves once no other
\* lock file exists; maybeMerge runs up to await readFile
MLock(b) ==
  /\ proc[b].pc = "idle"
  /\ lockOwner = NoBuild
  /\ lockOwner' = b
  /\ proc' = [proc EXCEPT ![b].pc = "reading"]
  /\ UNCHANGED <<single, shared, discovery, hooks, sorting, extras, disk>>

\* readFile resolves: JSON.parse, the merge loop, then compilation.emitAsset
\* with this.toString(), up to await unlock
MReadMerge(b) ==
  /\ proc[b].pc = "reading"
  /\ LET res == mergeLoop(proc[b].assets, opts, disk, NoTaps(disk), 1)
     IN  proc' = [proc EXCEPT ![b].pc = "unlocking",
                              ![b].assets = res.assets,
                              ![b].output = res.assets]
  /\ UNCHANGED <<single, shared, discovery, hooks, sorting, extras, disk, lockOwner>>

\* unlock(outputPath) resolves; the report phase of build b is over
MUnlock(b) ==
  /\ proc[b].pc = "unlocking"
  /\ lockOwner' = NoBuild
  /\ proc' = [proc EXCEPT ![b].pc = "emitted"]
  /\ UNCHANGED <<single, shared, discovery, hooks, sorting, extras, disk>>

\* webpack writes the emitted manifest asset to the output path
MWriteAsset(b) ==
  /\ proc[b].pc = "emitted"
  /\ disk' = proc[b].output
  /\ proc' = [proc EXCEPT ![b].pc = "afterEmit"]
  /\ UNCHANGED <<single, shared, discovery, hooks, sorting, extras, lockOwner>>

\* handleAfterEmit: writeTo is called when shouldWriteToDisk says so
MAfterEmit(b, write) ==
  /\ proc[b].pc = "afterEmit"
  /\ proc' = [proc EXCEPT ![b].pc = IF write THEN "wlocking" ELSE "done"]
  /\ UNCHANGED <<single, shared, discovery, hooks, sorting, extras, disk, lockOwner>>

\* writeTo: lock(destination) resolves
MWriteLock(b) ==
  /\ proc[b].pc = "wlocking"
  /\ lockOwner = NoBuild
  /\ lockOwner' = b
  /\ proc' = [proc EXCEPT ![b].pc = "writing"]
  /\ UNCHANGED <<single, shared, discovery, hooks, sorting, extras, disk>>

\* writeTo: mkdir, then writeFile(destination, this.toString())
MWriteFile(b) ==
  /\ proc[b].pc = "writing"
  /\ disk' = proc[b].assets
  /\ proc' = [proc EXCEPT ![b].pc = "wunlocking"]
  /\ UNCHANGED <<single, shared, discovery, hooks, sorting, extras, lockOwner>>

\* writeTo: unlock(destination) resolves
MWriteUnlock(b) ==
  /\ proc[b].pc = "wunlocking"
  /\ lockOwner' = NoBuild
  /\ proc' = [proc EXCEPT ![b].pc = "done"]
  /\ UNCHANGED <<single, shared, discovery, hooks, sorting, extras, disk>>

NextMulti ==
  \/ \E b \in Builds : MLock(b)
  \/ \E b \in Builds : MReadMerge(b)
  \/ \E b \in Builds : MUnlock(b)
  \/ \E b \in Builds : MWriteAsset(b)
  \/ \E b \in Builds, write \in BOOLEAN : MAfterEmit(b, write)
  \/ \E b \in Builds : MWriteLock(b)
  \/ \E b \in Builds : MWriteFile(b)
  \/ \E b \in Builds : MWriteUnlock(b)

SpecMulti == InitMulti /\ [][NextMulti]_vars

----------------------------------------------------------------------------
(* Two plugin instances constructed with the same assets object.  An object
   is a reference into heap; this.assets and this.options.assets hold
   references. *)

Instances == {"m1", "m2"}

\* the object passed as options.assets to both constructors
SharedRef == <<"options", "assets">>

\* an object allocated by instance id
Own(id) == <<"own", id>>

Refs == {SharedRef} \cup {Own(id) : id \in Instances}

RECURSIVE ObjectAssign(_, _, _)
\* Object.assign(target, source): the own properties of source, in order,
\* from the i-th on
ObjectAssign(target, source, i) ==
  IF i > Len(source) THEN target
  ELSE ObjectAssign(Assign(target, source[i].k, source[i].v), source, i + 1)

\* a clear that gives the instance a new empty object
clearReplace(h, me) ==
  [heap |-> [h EXCEPT ![Own(me.id)] = <<>>], assets |-> Own(me.id)]

\* clear(): every key is deleted from the object this.assets refers to
clear(h, me) ==
  [heap |-> [h EXCEPT ![me.assets] = <<>>], assets |-> me.assets]

\* the afterOptions tap: this.assets = Object.assign(options.assets,
\* this.assets, options.assets)
afterOptions(h, me) ==
  LET first == ObjectAssign(h[me.optAssets], h[me.assets], 1)
      h1 == [h EXCEPT ![me.optAssets] = first]
      second == ObjectAssign(h1[me.optAssets], h1[me.optAssets], 1)
  IN  [heap |-> [h1 EXCEPT ![me.optAssets] = second], assets |-> me.optAssets]

\* the entries the report phase of each instance's build sets: key, asset name
ReportEntries(id) ==
  IF id = "m1" THEN <<Field(K_c, Str("x.js"))>>
  ELSE <<Field(K_back, Str("y.js"))>>

\* the store an instance sees
View(id) == heap[inst[id].assets]

InitSharedWith(modes) ==
  /\ opts \in {o \in Options : o.merge = "off"}
  /\ SingleIdle
  /\ MultiIdle
  /\ DiscoveryIdle
  /\ HooksIdle
  /\ SortIdle
  /\ ExtrasIdle
  /\ \E st \in InitialStores :
       heap = [ref \in Refs |-> IF ref = SharedRef THEN st ELSE <<>>]
  /\ inst = [id \in Instances |->
               [id |-> id, assets |-> SharedRef, optAssets |-> SharedRef,
                pc |-> "new"]]
  /\ watching \in modes

\* manifest.set(key, value) on instance id; no customize tap is registered
ISet(id, key, value) ==
  /\ LET res == set(View(id), opts, FALSE, NoAsset, key, value,
                    HookRet("undefined", FALSE, K_c, FALSE, Null))
     IN  heap' = [heap EXCEPT ![inst[id].assets] = res.assets]
  /\ UNCHANGED <<single, multi, discovery, hooks, sorting, extras, inst, watching>>

\* manifest.setRaw(key, value) on instance id
ISetRaw(id, key, value) ==
  /\ heap' = [heap EXCEPT ![inst[id].assets] = setRaw(View(id), key, value)]
  /\ UNCHANGED <<single, multi, discovery, hooks, sorting, extras, inst, watching>>

\* manifest.delete(key) on instance id
IDelete(id, key) ==
  /\ heap' = [heap EXCEPT ![inst[id].assets] = delete(View(id), key).assets]
  /\ UNCHANGED <<single, multi, discovery, hooks, sorting, extras, inst, watching>>

\* manifest.clear() on instance id
IClear(id) ==
  /\ LET res == clear(heap, inst[id])
     IN  /\ heap' = res.heap
         /\ inst' = [inst EXCEPT ![id].assets = res.assets]
  /\ UNCHANGED <<single, multi, discovery, hooks, sorting, extras, watching>>

\* manifest.apply(compiler) on instance id: hooks.options (no tap), then
\* hooks.afterOptions; the compiler hooks are tapped
IApply(id) ==
  /\ inst[id].pc \in {"new", "applied"}
  /\ LET res == afterOptions(heap, inst[id])
     IN  /\ heap' = res.heap
         /\ inst' = [inst EXCEPT ![id].assets = res.assets, ![id].pc = "applied"]
  /\ UNCHANGED <<single, multi, discovery, hooks, sorting, extras, watching>>

InitShared == InitSharedWith({FALSE})

NextShared ==
  \/ \E id \in Instances, key \in Keys, value \in Values : ISet(id, key, value)
  \/ \E id \in Instances, key \in Keys, value \in Values : ISetRaw(id, key, value)
  \/ \E id \in Instances, key \in Keys : IDelete(id, key)
  \/ \E id \in Instances : IClear(id)
  \/ \E id \in Instances : IApply(id)

SpecShared == InitShared /\ [][NextShared]_vars

RECURSIVE reportLoop(_, _, _, _, _)
\* handleProcessAssetsReport, the loop over the assets: set(key, asset.name)
\* with currentAsset = cur, from the i-th entry on; no customize tap
reportLoop(store, o, cur, entries, i) ==
  IF i > Len(entries) THEN store
  ELSE reportLoop(set(store, o, FALSE, cur, entries[i].k, entries[i].v,
                      HookRet("undefined", FALSE, K_c, FALSE, Null)).assets,
                  o, cur, entries, i + 1)

\* compiler.hooks.watchRun of the compiler of instance id: handleWatchRun
WatchRun(id) ==
  /\ watching
  /\ inst[id].pc \in {"applied", "done"}
  /\ LET res == clear(heap, inst[id])
     IN  /\ heap' = res.heap
         /\ inst' = [inst EXCEPT ![id].assets = res.assets, ![id].pc = "started"]
  /\ UNCHANGED <<single, multi, discovery, hooks, sorting, extras, watching>>

\* compiler.run of the compiler of instance id: the plugin taps nothing here
Run(id) ==
  /\ ~watching
  /\ inst[id].pc = "applied"
  /\ inst' = [inst EXCEPT ![id].pc = "started"]
  /\ UNCHANGED <<single, multi, discovery, hooks, sorting, extras, heap, watching>>

\* handleProcessAssetsReport of the build of instance id, up to
\* emitAssetsManifest
Report(id, cur) ==
  /\ inst[id].pc = "started"
  /\ cur.present
  /\ heap' = [heap EXCEPT ![inst[id].assets] =
                 reportLoop(View(id), opts, cur, ReportEntries(id), 1)]
  /\ inst' = [inst EXCEPT ![id].pc = "reported"]
  /\ UNCHANGED <<single, multi, discovery, hooks, sorting, extras, watching>>

\* the manifest is emitted and the build of instance id is done
Finish(id) ==
  /\ inst[id].pc = "reported"
  /\ inst' = [inst EXCEPT ![id].pc = "done"]
  /\ UNCHANGED <<single, multi, discovery, hooks, sorting, extras, heap, watching>>

InitSharedBuilds == InitSharedWith(BOOLEAN)

NextSharedBuilds ==
  \/ \E id \in Instances : IApply(id)
  \/ \E id \in Instances : WatchRun(id)
  \/ \E id \in Instances : Run(id)
  \/ \E id \in Instances, cur \in CurrentAssets : Report(id, cur)
  \/ \E id \in Instances : Finish(id)

SpecSharedBuilds == InitSharedBuilds /\ [][NextSharedBuilds]_vars

----------------------------------------------------------------------------
(* Discovery and report: the sources that record asset names and
   handleProcessAssetsReport.  A file is its name, the key that spells the
   name, its extension (getExtension) and its extension group. *)

FileA == [name |-> "a.js", key |-> <<"a", ".js">>, ext |-> ".js", grp |-> "js"]
FileH == [name |-> "h.js", key |-> <<"h", ".js">>, ext |-> ".js", grp |-> "js"]
FileB == [name |-> "b.css", key |-> <<"b", ".css">>, ext |-> ".css", grp |-> "css"]

\* an asset of the compilation: info.hotModuleReplacement, info.assetsManifest
\* and whether info.sourceFilename is set
CompAsset(file, hmr, manifest, hasSrc) ==
  [file |-> file, hmr |-> hmr, manifest |-> manifest, hasSrc |-> hasSrc]

\* file lists of the chunk, of the entry point and of its child assets
FileLists == {<<FileA>>, <<FileA, FileH>>, <<FileH, FileB>>}
ChildLists == {<<>>, <<FileH>>, <<FileB, FileH>>}

Compilations ==
  {[phase |-> "discover",
    assets |-> <<CompAsset(FileA, ha, FALSE, src), CompAsset(FileH, hh, FALSE, src),
                 CompAsset(FileB, hb, mb, FALSE)>>,
    chunk |-> fl, child |-> cl, entrypoints |-> ep, entrypointsUseAssets |-> ua]
   : ha \in BOOLEAN, hh \in BOOLEAN, hb \in BOOLEAN, mb \in BOOLEAN,
     src \in BOOLEAN, fl \in FileLists, cl \in ChildLists,
     ep \in BOOLEAN, ua \in BOOLEAN}

\* join(dirname(name), basename(sourceFilename)): the source file is s.<ext>
SrcKey(file) == <<"s", file.ext>>

\* chunkName + this.getExtension(filename)
ChunkKey(chunkName, file) == <<chunkName, file.ext>>

\* options.entrypointsKey
EntrypointsKey == <<"entrypoints">>

\* a filter that takes no asset for a hot-module-replacement asset
isHotModuleReplacementNever(asset) == FALSE

\* asset.info.hotModuleReplacement
isHotModuleReplacement(asset) == asset.hmr

\* a filter that lets the manifests through
getCompilationAssetsAll(c) ==
  [assets |-> SelectSeq(c.assets, LAMBDA a : ~isHotModuleReplacement(a)),
   hmrFiles |-> {c.assets[i].file.name :
                   i \in {j \in DOMAIN c.assets : isHotModuleReplacement(c.assets[j])}}]

getCompilationAssets(c) ==
  [assets |-> SelectSeq(c.assets,
                        LAMBDA a : ~isHotModuleReplacement(a) /\ ~a.manifest),
   hmrFiles |-> {c.assets[i].file.name :
                   i \in {j \in DOMAIN c.assets : isHotModuleReplacement(c.assets[j])}}]

RECURSIVE recordAll(_, _, _)
\* this.assetNames.set(key, name) for the files from the i-th on
recordAll(names, files, i) ==
  IF i > Len(files) THEN names
  ELSE recordAll(Assign(names, SrcKey(files[i]), files[i].name), files, i + 1)

RECURSIVE processStatsAssets(_, _, _)
processStatsAssets(names, statsAssets, i) ==
  IF i > Len(statsAssets) THEN names
  ELSE processStatsAssets(
         IF statsAssets[i].hasSrc
         THEN Assign(names, SrcKey(statsAssets[i].file), statsAssets[i].file.name)
         ELSE names,
         statsAssets, i + 1)

RECURSIVE processAssetsByChunkName(_, _, _, _, _)
processAssetsByChunkName(names, chunkName, files, hmrFiles, i) ==
  IF i > Len(files) THEN names
  ELSE processAssetsByChunkName(
         IF files[i].name \notin hmrFiles
         THEN Assign(names, ChunkKey(chunkName, files[i]), files[i].name)
         ELSE names,
         chunkName, files, hmrFiles, i + 1)

\* a lookup that stops at the first key found
findFirstAssetKey(names, searchValue) ==
  LET found == SelectSeq(names, LAMBDA e : e.v = searchValue)
  IN  IF found = <<>> THEN <<>> ELSE <<found[1].k>>

\* findMapKeysByValue(this.assetNames)(searchValue)
findAssetKeys(names, searchValue) ==
  LET found == SelectSeq(names, LAMBDA e : e.v = searchValue)
  IN  [i \in DOMAIN found |-> found[i].k]

\* the asset as currentAsset: its digest is recorded when integrity is on
AsCurrent(o, asset) ==
  IF o.integrity
  THEN [present |-> TRUE, hasDigest |-> TRUE, digest |-> "sha256-XYZ"]
  ELSE [present |-> TRUE, hasDigest |-> FALSE, digest |-> ""]

RECURSIVE setEach(_, _, _, _, _, _)
\* sourceFilenames.forEach: set(key, asset.name) from the j-th key on
setEach(store, o, cur, keys, value, j) ==
  IF j > Len(keys) THEN store
  ELSE setEach(set(store, o, FALSE, cur, keys[j], value,
                   HookRet("undefined", FALSE, K_c, FALSE, Null)).assets,
               o, cur, keys, value, j + 1)

RECURSIVE assetLoop(_, _, _, _, _)
\* for (const asset of assets), from the i-th asset on
assetLoop(store, o, names, as, i) ==
  IF i > Len(as) THEN store
  ELSE
    LET found == findAssetKeys(names, as[i].file.name)
        sourceFilenames ==
          IF Len(found) = 0
          THEN <<IF as[i].hasSrc THEN SrcKey(as[i].file) ELSE as[i].file.key>>
          ELSE found
    IN  assetLoop(setEach(store, o, AsCurrent(o, as[i]), sourceFilenames,
                          Str(as[i].file.name), 1),
                  o, names, as, i + 1)

getAssetOrFilename(store, o, names, useAssets, file) ==
  LET found == findAssetKeys(names, file.name)
      asset ==
        IF ~useAssets THEN Undefined
        ELSE IF Len(found) > 0 /\ Truthy(Prop(store, found[Len(found)]))
        THEN Prop(store, found[Len(found)])
        ELSE Prop(store, file.key)
  IN  IF Truthy(asset) THEN asset ELSE Str(getPublicPath(o, file.name))

RECURSIVE group(_, _, _, _, _, _, _)
\* group(files, getExtensionGroup, getAssetOrFilename), from the i-th file on
group(obj, files, store, o, names, useAssets, i) ==
  IF i > Len(files) THEN obj
  ELSE group(Assign(obj, files[i].grp,
                    Arr(Append(Prop(obj, files[i].grp).a,
                               getAssetOrFilename(store, o, names, useAssets,
                                                  files[i])))),
             files, store, o, names, useAssets, i + 1)

\* the entrypoints object: one entry point, main, with its child assets
entrypointsOf(c, hmrFiles, store, o, names) ==
  LET removeHMR(file) == file.name \notin hmrFiles
      grouped(files) ==
        Obj(group(<<>>, SelectSeq(files, removeHMR), store, o, names,
                  c.entrypointsUseAssets, 1))
  IN  <<Field("main",
              Obj(IF c.child = <<>>
                  THEN <<Field("assets", grouped(c.chunk))>>
                  ELSE <<Field("assets", grouped(c.chunk)),
                         Field("preload", grouped(c.child))>>))>>

rest == <<isMerging, pc, lockHeld, emitted, fault, error, merged, calls, last>>

InitReport ==
  /\ opts \in {o \in Options : o.merge = "off"}
  /\ SingleIdle
  /\ MultiIdle
  /\ SharedIdle
  /\ comp \in Compilations
  /\ assetNames = <<>>
  /\ HooksIdle
  /\ SortIdle
  /\ ExtrasIdle

\* handleNormalModuleLoader: a loader emits file through emitFile
EmitFile(file) ==
  /\ comp.phase = "discover"
  /\ assetNames' = Assign(assetNames, SrcKey(file), file.name)
  /\ UNCHANGED <<single, multi, shared, hooks, sorting, extras, comp>>

\* handleProcessAssetsAnalyse: the asset modules of the chunks
ProcessAssetsAnalyse(files) ==
  /\ comp.phase = "discover"
  /\ assetNames' = recordAll(assetNames, files, 1)
  /\ comp' = [comp EXCEPT !.phase = "analysed"]
  /\ UNCHANGED <<single, multi, shared, hooks, sorting, extras>>

\* handleProcessAssetsReport up to emitAssetsManifest
ProcessAssetsReport ==
  /\ comp.phase = "analysed"
  /\ LET ca == getCompilationAssets(comp)
         n1 == processStatsAssets(assetNames, comp.assets, 1)
         n2 == processAssetsByChunkName(n1, "main", comp.chunk, ca.hmrFiles, 1)
         st == assetLoop(assets, opts, n2, ca.assets, 1)
         prior == get(st, EntrypointsKey, Undefined)
     IN  /\ assetNames' = n2
         /\ assets' =
              IF comp.entrypoints
              THEN setRaw(st, EntrypointsKey,
                          Obj(ObjectAssign(
                                IF isObject(prior) THEN prior.f ELSE <<>>,
                                entrypointsOf(comp, ca.hmrFiles, st, opts, n2), 1)))
              ELSE st
  /\ comp' = [comp EXCEPT !.phase = "reported"]
  /\ UNCHANGED <<multi, shared, hooks, sorting, extras, opts, rest>>

NextReport ==
  \/ \E file \in {FileA, FileH} : EmitFile(file)
  \/ \E files \in ChildLists : ProcessAssetsAnalyse(files)
  \/ ProcessAssetsReport

SpecReport == InitReport /\ [][NextReport]_vars

----------------------------------------------------------------------------
(* The extension points of one instance whose options carry an apply, a
   customize, a transform and a done callback. The instance is in the plugin
   list of up to two compilers (createMulti); the store, the flag #isMerging
   and the tapable hooks belong to the instance. The callbacks return
   undefined; hlog records each call of a hook. *)

Compilers == {"c1", "c2"}

HookNames == {"apply", "customize", "transform", "done"}

\* one call of a hook: the hook, what caused it, #isMerging at the call and
\* how many times the callback from options ran in it
Ev(h, origin, merging, n) == [h |-> h, origin |-> origin, merging |-> merging, n |-> n]

\* the entries the report phase of each compiler's build sets
FreshEntries(c) ==
  IF c = "c1" THEN <<Field(K_c, Str("x.js"))>>
  ELSE <<Field(K_back, Str("y.js"))>>

RECURSIVE reportTrace(_, _, _, _, _, _)
\* handleProcessAssetsReport, the loop over the assets from the i-th entry on:
\* the store it leaves and, per set call, whether hooks.customize was called
reportTrace(store, o, merging, cur, entries, i) ==
  IF i > Len(entries) THEN [assets |-> store, called |-> <<>>]
  ELSE
    LET step == set(store, o, merging, cur, entries[i].k, entries[i].v,
                    HookRet("undefined", FALSE, K_c, FALSE, Null))
        tail == reportTrace(step.assets, o, merging, cur, entries, i + 1)
    IN  [assets |-> tail.assets, called |-> <<step.called>> \o tail.called]

\* the customize calls among a run of set calls
CustomizeEvents(called, origin, merging, n) ==
  LET idx == {i \in DOMAIN called : called[i]}
      RECURSIVE pick(_)
      pick(i) == IF i > Len(called) THEN <<>>
                 ELSE (IF i \in idx THEN <<Ev("customize", origin, merging, n)>>
                       ELSE <<>>) \o pick(i + 1)
  IN  pick(1)

InitHooks ==
  /\ opts \in {o \in Options : ~o.integrity /\ o.publicPath = ""}
  /\ assets = <<>>
  /\ isMerging = FALSE
  /\ pc = "idle"
  /\ lockHeld = FALSE
  /\ emitted = FALSE
  /\ fault = "none"
  /\ error = "none"
  /\ merged = NoMerge
  /\ calls = 0
  /\ last = NoCall
  /\ disk \in DiskStarts
  /\ lockOwner = NoBuild
  /\ proc = <<>>
  /\ SharedIdle
  /\ DiscoveryIdle
  /\ taps = [h \in HookNames |-> 0]
  /\ hstate = [c \in Compilers |-> [pc |-> "new", write |-> FALSE, merge |-> NoMerge]]
  /\ hlog = [c \in Compilers \cup {"user"} |-> <<>>]
  /\ SortIdle
  /\ ExtrasIdle

\* what the actions of this section leave alone
hookRest ==
  <<opts, pc, lockHeld, emitted, fault, error, merged, last, proc, shared, discovery,
    sorting, extras>>

\* apply(compiler): hooks.options, hooks.afterOptions, whose built-in tap
\* taps the four callbacks of options, the compiler hooks, then hooks.apply
apply(c) ==
  /\ hstate[c].pc = "new"
  /\ \A d \in Compilers : hstate[d].pc \in {"new", "applied"}
  /\ taps' = [h \in HookNames |-> taps[h] + 1]
  /\ hlog' = [hlog EXCEPT ![c] = @ \o <<Ev("options", "build", isMerging, 0),
                                        Ev("afterOptions", "build", isMerging, 0),
                                        Ev("apply", "build", isMerging, taps'["apply"])>>]
  /\ hstate' = [hstate EXCEPT ![c].pc = "applied"]
  /\ UNCHANGED <<hookRest, assets, isMerging, calls, disk, lockOwner>>

\* handleProcessAssetsReport of compiler c's build: the loop over the assets,
\* up to await lock (merge on) or to the emit (merge off)
HReport(c, cur) ==
  /\ hstate[c].pc = "applied"
  /\ cur.present
  /\ LET res == reportTrace(assets, opts, isMerging, cur, FreshEntries(c), 1)
     IN  /\ assets' = res.assets
         /\ hlog' = [hlog EXCEPT ![c] = @ \o
                       CustomizeEvents(res.called, "fresh", isMerging, taps["customize"])]
  /\ hstate' = [hstate EXCEPT ![c].pc = IF opts.merge # "off" THEN "locking" ELSE "emit"]
  /\ UNCHANGED <<hookRest, isMerging, calls, disk, lockOwner, taps>>

\* a lock step that serializes and emits before the merge
HLockEmitFirst(c) ==
  /\ hstate[c].pc = "locking"
  /\ lockOwner = NoBuild
  /\ lockOwner' = c
  /\ isMerging' = TRUE
  /\ hlog' = [hlog EXCEPT ![c] = @ \o <<Ev("transform", "build", isMerging, taps["transform"]),
                                        Ev("emitAsset", "build", isMerging, 0)>>]
  /\ hstate' = [hstate EXCEPT ![c].pc = "reading"]
  /\ UNCHANGED <<hookRest, assets, calls, disk, taps>>

\* lock(outputPath) resolves, the dynamic import resolves, maybeMerge sets
\* #isMerging and awaits readFile
HLock(c) ==
  /\ hstate[c].pc = "locking"
  /\ lockOwner = NoBuild
  /\ lockOwner' = c
  /\ isMerging' = TRUE
  /\ hstate' = [hstate EXCEPT ![c].pc = "reading"]
  /\ UNCHANGED <<hookRest, assets, calls, disk, taps, hlog>>

\* lock(outputPath) rejects after its retries: another build holds the lock
HLockTimeout(c) ==
  /\ hstate[c].pc = "locking"
  /\ lockOwner # NoBuild
  /\ hstate' = [hstate EXCEPT ![c].pc = "failed"]
  /\ UNCHANGED <<hookRest, assets, isMerging, calls, disk, lockOwner, taps, hlog>>

\* readFile rejects: the finally block clears #isMerging and the build fails
\* with the lock in place
HReadFailed(c) ==
  /\ hstate[c].pc = "reading"
  /\ isMerging' = FALSE
  /\ hstate' = [hstate EXCEPT ![c].pc = "failed"]
  /\ UNCHANGED <<hookRest, assets, calls, disk, lockOwner, taps, hlog>>

\* readFile resolves: JSON.parse, the loop over the entries of the file and
\* the finally block
HReadMerge(c) ==
  /\ hstate[c].pc = "reading"
  /\ LET res == mergeLoop(assets, opts, disk, NoTaps(disk), 1)
         called == mergeTrace(assets, opts, disk, NoTaps(disk), 1)
     IN  /\ assets' = res.assets
         /\ hlog' = [hlog EXCEPT ![c] = @ \o
                       CustomizeEvents(called, "merge", isMerging, taps["customize"])]
         /\ hstate' = [hstate EXCEPT ![c].pc = "emit",
                                     ![c].merge = [done |-> TRUE, pre |-> assets,
                                                   data |-> disk]]
  /\ isMerging' = FALSE
  /\ UNCHANGED <<hookRest, calls, disk, lockOwner, taps>>

\* compilation.emitAsset(output, new RawSource(this.toString())): toJSON
\* calls hooks.transform
HEmit(c) ==
  /\ hstate[c].pc = "emit"
  /\ hlog' = [hlog EXCEPT ![c] = @ \o <<Ev("transform", "build", isMerging, taps["transform"]),
                                        Ev("emitAsset", "build", isMerging, 0)>>]
  /\ hstate' = [hstate EXCEPT ![c].pc = IF opts.merge # "off" THEN "unlocking"
                                         ELSE "emitted"]
  /\ UNCHANGED <<hookRest, assets, isMerging, calls, disk, lockOwner, taps>>

\* unlock(outputPath) resolves
HUnlock(c) ==
  /\ hstate[c].pc = "unlocking"
  /\ lockOwner' = NoBuild
  /\ hstate' = [hstate EXCEPT ![c].pc = "emitted"]
  /\ UNCHANGED <<hookRest, assets, isMerging, calls, disk, taps, hlog>>

\* handleAfterEmit: writeTo is called when shouldWriteToDisk says so
HAfterEmit(c, write) ==
  /\ hstate[c].pc = "emitted"
  /\ hstate' = [hstate EXCEPT ![c].pc = IF write THEN "wlocking" ELSE "finishing",
                              ![c].write = write]
  /\ UNCHANGED <<hookRest, assets, isMerging, calls, disk, lockOwner, taps, hlog>>

\* writeTo: lock(destination) resolves
HWriteLock(c) ==
  /\ hstate[c].pc = "wlocking"
  /\ lockOwner = NoBuild
  /\ lockOwner' = c
  /\ hstate' = [hstate EXCEPT ![c].pc = "writing"]
  /\ UNCHANGED <<hookRest, assets, isMerging, calls, disk, taps, hlog>>

\* writeTo: lock(destination) rejects after its retries
HWriteLockTimeout(c) ==
  /\ hstate[c].pc = "wlocking"
  /\ lockOwner # NoBuild
  /\ hstate' = [hstate EXCEPT ![c].pc = "failed"]
  /\ UNCHANGED <<hookRest, assets, isMerging, calls, disk, lockOwner, taps, hlog>>

\* writeTo: mkdir, writeFile(destination, this.toString()), unlock
HWriteFile(c) ==
  /\ hstate[c].pc = "writing"
  /\ hlog' = [hlog EXCEPT ![c] = @ \o <<Ev("transform", "build", isMerging, taps["transform"]),
                                        Ev("writeFile", "build", isMerging, 0)>>]
  /\ disk' = assets
  /\ lockOwner' = NoBuild
  /\ hstate' = [hstate EXCEPT ![c].pc = "finishing"]
  /\ UNCHANGED <<hookRest, assets, isMerging, calls, taps>>

\* compiler.hooks.done: the tap of apply calls hooks.done.promise
HDone(c) ==
  /\ hstate[c].pc = "finishing"
  /\ hlog' = [hlog EXCEPT ![c] = @ \o <<Ev("done", "build", isMerging, taps["done"])>>]
  /\ hstate' = [hstate EXCEPT ![c].pc = "done"]
  /\ UNCHANGED <<hookRest, assets, isMerging, calls, disk, lockOwner, taps>>

\* user code calls set(key, value) on the instance
HUserSet(key, value) ==
  /\ calls < MaxCalls
  /\ \E c \in Compilers : hstate[c].pc # "new"
  /\ calls' = calls + 1
  /\ LET res == set(assets, opts, isMerging, NoAsset, key, value,
                    HookRet("undefined", FALSE, K_c, FALSE, Null))
     IN  /\ assets' = res.assets
         /\ hlog' = [hlog EXCEPT !["user"] = @ \o
                       CustomizeEvents(<<res.called>>, "user", isMerging, taps["customize"])]
  /\ UNCHANGED <<hookRest, isMerging, disk, lockOwner, taps, hstate>>

NextHooks ==
  \/ \E c \in Compilers : apply(c)
  \/ \E c \in Compilers, cur \in CurrentAssets : HReport(c, cur)
  \/ \E c \in Compilers : HLock(c)
  \/ \E c \in Compilers : HLockTimeout(c)
  \/ \E c \in Compilers : HReadFailed(c)
  \/ \E c \in Compilers : HReadMerge(c)
  \/ \E c \in Compilers : HEmit(c)
  \/ \E c \in Compilers : HUnlock(c)
  \/ \E c \in Compilers, write \in BOOLEAN : HAfterEmit(c, write)
  \/ \E c \in Compilers : HWriteLock(c)
  \/ \E c \in Compilers : HWriteLockTimeout(c)
  \/ \E c \in Compilers : HWriteFile(c)
  \/ \E c \in Compilers : HDone(c)
  \/ \E key \in {K_slash} : HUserSet(key, Str("u.js"))

SpecHooks == InitHooks /\ [][NextHooks]_vars

----------------------------------------------------------------------------
(* Serialization with options.sortManifest: toString calls toJSON, whose
   transform waterfall starts with the built-in tap that sorts the store
   when the option is set. *)

\* UTF-16 code units of the characters that occur in keys and in values
\* converted to strings
CodeUnit(ch) ==
  CASE ch = " " -> 32 [] ch = "+" -> 43 [] ch = "," -> 44 [] ch = "O" -> 79
    [] ch = "[" -> 91 [] ch = "]" -> 93 [] ch = "a" -> 97 [] ch = "b" -> 98
    [] ch = "c" -> 99 [] ch = "e" -> 101 [] ch = "j" -> 106 [] ch = "o" -> 111
    [] ch = "t" -> 116

\* keys of the manifest, as sequences of characters
SortKeys == {<<"a">>, <<"a", "+", "b">>, <<"a", ",", "b">>, <<"b">>}

\* values of the manifest
SortValues == {Str("a"), Str("c"), ObjA3}

\* String(value) for a value of the manifest
ToChars(value) ==
  IF value.t = "str" THEN <<value.s>>
  ELSE <<"[", "o", "b", "j", "e", "c", "t", " ", "O", "b", "j", "e", "c", "t", "]">>

\* String(entry) for an entry [key, value]: Array.prototype.join
EntryString(e) == e.k \o <<",">> \o ToChars(e.v)

RECURSIVE StringLess(_, _, _)
\* x < y for strings, by code units, from position i on
StringLess(x, y, i) ==
  IF i > Len(y) THEN FALSE
  ELSE IF i > Len(x) THEN TRUE
  ELSE IF CodeUnit(x[i]) # CodeUnit(y[i]) THEN CodeUnit(x[i]) < CodeUnit(y[i])
  ELSE StringLess(x, y, i + 1)

\* the values options.sortManifest takes: false, true, and two comparators
\* (ascending and descending by code units)
SortModes == {"false", "true", "ascending", "descending"}

\* the comparator the entries are sorted with: is left placed after right
Above(mode, left, right) ==
  CASE mode = "ascending" -> StringLess(right.k, left.k, 1)
    [] mode = "descending" -> StringLess(left.k, right.k, 1)
    [] OTHER -> StringLess(EntryString(right), EntryString(left), 1)

RECURSIVE insertSorted(_, _, _)
\* e placed in the sorted sequence s behind every entry it is not below
insertSorted(mode, s, e) ==
  IF s = <<>> THEN <<e>>
  ELSE IF Above(mode, s[Len(s)], e)
       THEN insertSorted(mode, SubSeq(s, 1, Len(s) - 1), e) \o <<s[Len(s)]>>
       ELSE s \o <<e>>

RECURSIVE sortEntries(_, _, _)
\* Array.prototype.sort: a stable sort of the entries
sortEntries(mode, entries, n) ==
  IF n = 0 THEN <<>>
  ELSE insertSorted(mode, sortEntries(mode, entries, n - 1), entries[n])

\* getSortedObject(object, compareFunction)
getSortedObject(mode, object) == sortEntries(mode, object, Len(object))

\* the built-in tap on hooks.transform
transformTap(mode, store) ==
  IF mode = "false" THEN store ELSE getSortedObject(mode, store)

\* the stores set and setRaw calls build from these keys and values: every
\* set of keys in every insertion order
SortStores ==
  {s \in UNION {[1..n -> [k : SortKeys, v : SortValues]] : n \in 0..Cardinality(SortKeys)} :
     \A i, j \in DOMAIN s : i # j => s[i].k # s[j].k}

InitSort ==
  /\ opts \in {o \in Options : o.merge = "off" /\ ~o.integrity /\ o.publicPath = ""}
  /\ assets \in SortStores
  /\ isMerging = FALSE
  /\ pc = "idle"
  /\ lockHeld = FALSE
  /\ emitted = FALSE
  /\ fault = "none"
  /\ error = "none"
  /\ merged = NoMerge
  /\ calls = 0
  /\ last = NoCall
  /\ MultiIdle
  /\ SharedIdle
  /\ DiscoveryIdle
  /\ HooksIdle
  /\ sortManifest \in SortModes
  /\ serialized = NoOutput
  /\ ExtrasIdle

\* toString(): the keys JSON.stringify lists, in order
toString ==
  /\ serialized' = [done |-> TRUE,
                    keys |-> [i \in DOMAIN assets |->
                                transformTap(sortManifest, assets)[i].k]]
  /\ UNCHANGED <<single, multi, shared, discovery, hooks, extras, sortManifest>>

NextSort == toString

SpecSort == InitSort /\ [][NextSort]_vars

----------------------------------------------------------------------------
(* Setup and the lifecycle of one compiler: the constructor, apply(compiler)
   and the compiler hooks webpack calls afterwards, for up to MaxBuilds builds
   in single-run mode (compiler.run) or in watch mode. A hook the plugin has
   not tapped reaches no handler. *)

MaxBuilds == 2

\* the hooks of the compiler that apply() taps
CompilerHooks == {"watchRun", "compilation", "thisCompilation", "afterEmit", "done"}

\* crypto.getHashes(), as far as the lists below name algorithms
Supported == {"sha256", "sha384"}

\* values of options.integrityHashes
HashLists ==
  {<<>>, <<"sha256">>, <<"sha256", "sha384">>, <<"sha256", "bogus">>, <<"bogus">>}

\* the options object: well-formed, with a key the schema does not list, or
\* with a value of the wrong type (space: false)
Shapes == {"ok", "unknownKey", "wrongType"}

\* a validation that accepts any list of algorithm names
validateAnyHashes(c) == c.shape = "ok"

\* validate(optionsSchema, options): additionalProperties is false, every
\* property has its type, and the items of integrityHashes are among
\* getHashes()
validate(c) ==
  /\ c.shape = "ok"
  /\ \A i \in DOMAIN c.integrityHashes : c.integrityHashes[i] \in Supported

\* an apply that taps the compiler hooks before it validates the options
applyTapsFirst(c) ==
  [threw |-> ~validate(c),
   wired |-> IF validate(c) /\ ~c.enabled THEN {} ELSE CompilerHooks]

\* an apply that does not read options.enabled
applyAlways(c) ==
  [threw |-> ~validate(c), wired |-> IF validate(c) THEN CompilerHooks ELSE {}]

\* apply(compiler): whether it throws, and the compiler hooks it has tapped
applyResult(c) ==
  IF ~validate(c) THEN [threw |-> TRUE, wired |-> {}]
  ELSE IF ~c.enabled THEN [threw |-> FALSE, wired |-> {}]
  ELSE [threw |-> FALSE, wired |-> CompilerHooks]

\* getSRIHash(algorithm, content)
getSRIHash(algorithm) == algorithm \o "-HASH"

\* asset.info.contenthash as another plugin may have left it
ContentHashes == {{}, {[algorithm |-> "sha256", hash |-> "sha256-EXT"]}}

RECURSIVE Join(_, _)
\* Array.prototype.join(' ') from the i-th element on
Join(strings, i) ==
  IF i > Len(strings) THEN ""
  ELSE IF i = Len(strings) THEN strings[i]
  ELSE strings[i] \o " " \o Join(strings, i + 1)

\* recordSubresourceIntegrity for one asset: info[integrityPropertyName]
\* afterwards, given what it held before and info.contenthash
recordSubresourceIntegrity(integrityHashes, before, contenthash) ==
  IF before # "" THEN before
  ELSE
    LET sri(algorithm) ==
          IF \E h \in contenthash : h.algorithm = algorithm
          THEN (CHOOSE h \in contenthash : h.algorithm = algorithm).hash
          ELSE getSRIHash(algorithm)
    IN  Join([i \in DOMAIN integrityHashes |-> sri(integrityHashes[i])], 1)

\* a clear that keeps the entries
clearNothing(store) == store

\* clear(): every key of the store is deleted
clearStore(store) == <<>>

\* the assets of the n-th build, as key and file name
SetupEntries(n) ==
  IF n = 0 THEN <<Field(K_c, Str("x.js")), Field(K_slash, Str("old.js"))>>
  ELSE <<Field(K_c, Str("x.js"))>>

\* keys user code sets before a build
UserKeys == {<<"u">>, K_c}

NoManifest == [done |-> FALSE, n |-> 0, store |-> <<>>]

InitSetup ==
  /\ opts \in {o \in Options : o.merge = "off" /\ o.publicPath = ""}
  /\ SingleIdle
  /\ MultiIdle
  /\ SharedIdle
  /\ DiscoveryIdle
  /\ HooksIdle
  /\ SortIdle
  /\ DecisionIdle
  /\ cfg \in [shape : Shapes, enabled : BOOLEAN, integrityHashes : HashLists]
  /\ wired = {}
  /\ life \in {[pc |-> "constructed", threw |-> FALSE, watch |-> w, n |-> 0,
                preset |-> {}, base |-> <<>>, manifest |-> NoManifest,
                written |-> FALSE, log |-> <<>>, before |-> "", info |-> ""]
                 : w \in BOOLEAN}

\* what the actions of this section leave alone
setupRest ==
  <<opts, isMerging, pc, lockHeld, fault, error, merged, last, multi, shared,
    discovery, hooks, sorting, decision, cfg>>

\* user code calls set(key, value) before a build starts: right after
\* construction, from the apply hook, or between builds
SUserSet(key) ==
  /\ calls < MaxCalls
  /\ life.pc \in {"constructed", "idle"}
  /\ calls' = calls + 1
  /\ LET res == set(assets, opts, FALSE, NoAsset, key, Str("u.js"),
                    HookRet("undefined", FALSE, K_c, FALSE, Null))
     IN  /\ assets' = res.assets
         /\ life' = [life EXCEPT !.preset = @ \cup {fixKey(key)},
                                 !.base = res.assets]
  /\ UNCHANGED <<setupRest, emitted, wired>>

\* apply(compiler)
SApply ==
  /\ life.pc = "constructed"
  /\ wired' = applyResult(cfg).wired
  /\ life' = [life EXCEPT !.pc = "idle", !.threw = applyResult(cfg).threw]
  /\ UNCHANGED <<setupRest, assets, emitted, calls>>

\* a build starts: compiler.run taps nothing of the plugin, compiler.watch
\* calls the watchRun hook and with it handleWatchRun
SStart ==
  /\ life.pc = "idle"
  /\ life.n < MaxBuilds
  /\ assets' = IF life.watch /\ "watchRun" \in wired THEN clearStore(assets)
               ELSE assets
  /\ life' = [life EXCEPT !.pc = "started"]
  /\ UNCHANGED <<setupRest, emitted, wired, calls>>

\* processAssets of the build's compilation: recordSubresourceIntegrity when
\* options.integrity is set, then handleProcessAssetsReport with the emit
SReport(before, contenthash) ==
  /\ life.pc = "started"
  /\ IF "thisCompilation" \in wired
     THEN LET info == IF opts.integrity
                      THEN recordSubresourceIntegrity(cfg.integrityHashes, before,
                                                      contenthash)
                      ELSE before
              cur == [present |-> TRUE, hasDigest |-> TRUE, digest |-> info]
              res == reportTrace(assets, opts, FALSE, cur, SetupEntries(life.n), 1)
          IN  /\ assets' = res.assets
              /\ emitted' = TRUE
              /\ life' = [life EXCEPT
                            !.pc = "reported",
                            !.before = before,
                            !.info = info,
                            !.manifest = [done |-> TRUE, n |-> life.n,
                                          store |-> res.assets],
                            !.log = @ \o [i \in DOMAIN res.called |-> "customize"]
                                      \o <<"transform">>]
     ELSE /\ life' = [life EXCEPT !.pc = "reported"]
          /\ UNCHANGED <<assets, emitted>>
  /\ UNCHANGED <<setupRest, wired, calls>>

\* the afterEmit hook: handleAfterEmit, with writeTo when shouldWriteToDisk
\* says so
SAfterEmit(write) ==
  /\ life.pc = "reported"
  /\ life' = IF "afterEmit" \in wired /\ write
             THEN [life EXCEPT !.pc = "emitted", !.written = TRUE,
                               !.log = @ \o <<"transform">>]
             ELSE [life EXCEPT !.pc = "emitted"]
  /\ UNCHANGED <<setupRest, assets, emitted, wired, calls>>

\* the done hook of the compiler: hooks.done of the instance
SDone ==
  /\ life.pc = "emitted"
  /\ life' = [life EXCEPT !.pc = "idle", !.n = @ + 1, !.preset = {},
                          !.log = IF "done" \in wired THEN @ \o <<"done">> ELSE @]
  /\ UNCHANGED <<setupRest, assets, emitted, wired, calls>>

NextSetup ==
  \/ \E key \in UserKeys : SUserSet(key)
  \/ SApply
  \/ SStart
  \/ \E before \in {"", "sha512-PRE"}, contenthash \in ContentHashes :
       SReport(before, contenthash)
  \/ \E write \in BOOLEAN : SAfterEmit(write)
  \/ SDone

SpecSetup == InitSetup /\ [][NextSetup]_vars

----------------------------------------------------------------------------
(* The entrypoints block of one entry point: getExtension with the default
   fileExtRegex, /\.\w{2,4}\.(?:map|gz|br)$|\.\w+$/i, over file names spelled
   as sequences of characters, and the grouping of the entry point's files. *)

\* \w
IsWordChar(ch) == ch \notin {".", "?", "#", "-", "/"}

\* String.prototype.toLowerCase, character by character
LowerChar(ch) ==
  CASE ch = "J" -> "j" [] ch = "S" -> "s" [] ch = "M" -> "m" [] OTHER -> ch

toLowerCase(s) == [i \in DOMAIN s |-> LowerChar(s[i])]

\* filename.split(/[?#]/)[0]
StripQuery(filename) ==
  LET marks == {i \in DOMAIN filename : filename[i] \in {"?", "#"}}
  IN  IF marks = {} THEN filename
      ELSE SubSeq(filename, 1, (CHOOSE i \in marks : \A j \in marks : i <= j) - 1)

IsWord(s) == \A i \in DOMAIN s : IsWordChar(s[i])

\* \.\w{2,4}\.(?:map|gz|br)$ matches at position p, case-insensitively
MatchesCompound(f, p) ==
  \E q \in (p + 3)..(p + 5) :
    /\ q < Len(f)
    /\ f[q] = "."
    /\ IsWord(SubSeq(f, p + 1, q - 1))
    /\ toLowerCase(SubSeq(f, q + 1, Len(f))) \in
         {<<"m", "a", "p">>, <<"g", "z">>, <<"b", "r">>}

\* \.\w+$ matches at position p
MatchesSimple(f, p) == p < Len(f) /\ IsWord(SubSeq(f, p + 1, Len(f)))

\* getExtension(filename): the leftmost match of fileExtRegex, or ''
getExtension(filename) ==
  LET f == StripQuery(filename)
      at == {p \in DOMAIN f :
               f[p] = "." /\ (MatchesCompound(f, p) \/ MatchesSimple(f, p))}
  IN  IF at = {} THEN <<>>
      ELSE SubSeq(f, CHOOSE p \in at : \A r \in at : p <= r, Len(f))

\* a group name that keeps the case of the extension
getExtensionGroupExact(filename) ==
  LET ext == getExtension(filename)
  IN  IF ext = <<>> THEN <<>> ELSE SubSeq(ext, 2, Len(ext))

\* getExtensionGroup: this.getExtension(file).substring(1).toLowerCase()
getExtensionGroup(filename) ==
  LET ext == getExtension(filename)
  IN  IF ext = <<>> THEN <<>> ELSE toLowerCase(SubSeq(ext, 2, Len(ext)))

\* a file of an entry point: its name as text and character by character
EntryFile(name, chars) ==
  [name |-> name, key |-> chars, ext |-> getExtension(chars),
   grp |-> getExtensionGroup(chars)]

EntryFiles ==
  {EntryFile("m.js", <<"m", ".", "j", "s">>),
   EntryFile("M.JS", <<"M", ".", "J", "S">>),
   EntryFile("m.css", <<"m", ".", "c", "s", "s">>),
   EntryFile("m.js.map", <<"m", ".", "j", "s", ".", "m", "a", "p">>),
   EntryFile("m.js?v", <<"m", ".", "j", "s", "?", "v">>),
   EntryFile("m", <<"m">>),
   EntryFile("h.js", <<"h", ".", "j", "s">>)}

\* entrypoint.getFiles(): distinct files in any order
EntryFileLists ==
  {s \in UNION {[1..n -> EntryFiles] : n \in 0..3} :
     \A i, j \in DOMAIN s : i # j => s[i] # s[j]}

NoAnswer == [done |-> FALSE]

InitEntry ==
  /\ opts \in {o \in Options : o.merge = "off" /\ ~o.integrity}
  /\ SingleIdle
  /\ MultiIdle
  /\ SharedIdle
  /\ DiscoveryIdle
  /\ HooksIdle
  /\ SortIdle
  /\ SetupIdle
  /\ given \in [files : EntryFileLists, hmrFiles : {{}, {"h.js"}, {"m.css", "h.js"}}]
  /\ answer = NoAnswer

\* handleProcessAssetsReport, the entrypoints block: one entry point, main,
\* with entrypointsUseAssets off
Entrypoints ==
  /\ answer' = [done |-> TRUE,
                entrypoints |->
                  entrypointsOf([chunk |-> given.files, child |-> <<>>,
                                 entrypointsUseAssets |-> FALSE],
                                given.hmrFiles, assets, opts, <<>>)]
  /\ UNCHANGED <<single, multi, shared, discovery, hooks, sorting, setup, given>>

NextEntry == Entrypoints

SpecEntry == InitEntry /\ [][NextEntry]_vars

----------------------------------------------------------------------------
(* Two builds whose instances share one store, each with entry points of its
   own, and entrypointsKey the default string *)

EntryMain1 == Obj(<<Field(<<"assets">>, Obj(<<Field(<<"j", "s">>, Arr(<<Str("a.js")>>))>>))>>)
EntryMain2 == Obj(<<Field(<<"assets">>, Obj(<<Field(<<"j", "s">>, Arr(<<Str("b.js")>>))>>))>>)
EntryOther == Obj(<<Field(<<"assets">>, Obj(<<Field(<<"j", "s">>, Arr(<<Str("c.js")>>))>>))>>)

\* compilation.entrypoints of the build of each instance, as the report
\* phase collects them
BuildEntrypoints ==
  {e \in [Instances -> {<<>>,
                         <<Field(<<"main">>, EntryMain1), Field(<<"admin">>, EntryOther)>>,
                         <<Field(<<"client">>, EntryOther)>>,
                         <<Field(<<"main">>, EntryMain2), Field(<<"client">>, EntryOther)>>}] :
     /\ e["m1"] = <<Field(<<"main">>, EntryMain1), Field(<<"admin">>, EntryOther)>>
     /\ e["m2"] # e["m1"]}

\* a report that stores the entry points of the build alone
replaceEntrypoints(prior, entrypoints) == Obj(entrypoints)

\* { ...this.get(this.options.entrypointsKey), ...entrypoints }
mergeEntrypoints(prior, entrypoints) ==
  Obj(ObjectAssign(IF isObject(prior) THEN prior.f ELSE <<>>, entrypoints, 1))

InitEntryMerge ==
  /\ opts \in {o \in Options : o.merge = "off" /\ ~o.integrity}
  /\ SingleIdle
  /\ MultiIdle
  /\ DiscoveryIdle
  /\ HooksIdle
  /\ SortIdle
  /\ SetupIdle
  /\ \E st \in InitialStores :
       heap = [ref \in Refs |-> IF ref = SharedRef THEN st ELSE <<>>]
  /\ inst = [id \in Instances |->
               [id |-> id, assets |-> SharedRef, optAssets |-> SharedRef,
                pc |-> "new"]]
  /\ watching \in BOOLEAN
  /\ given \in BuildEntrypoints
  /\ answer = <<>>

\* handleProcessAssetsReport of the build of instance id with
\* options.entrypoints on: the loop over the assets, then the entry points
EReport(id, cur) ==
  /\ inst[id].pc = "started"
  /\ cur.present
  /\ LET st == reportLoop(View(id), opts, cur, ReportEntries(id), 1)
     IN  heap' = [heap EXCEPT ![inst[id].assets] =
                    setRaw(st, EntrypointsKey,
                           mergeEntrypoints(get(st, EntrypointsKey, Undefined),
                                            given[id]))]
  /\ inst' = [inst EXCEPT ![id].pc = "reported"]
  /\ UNCHANGED <<single, multi, discovery, hooks, sorting, extras, watching>>

NextEntryMerge ==
  \/ \E id \in Instances : IApply(id)
  \/ \E id \in Instances : WatchRun(id)
  \/ \E id \in Instances : Run(id)
  \/ \E id \in Instances, cur \in CurrentAssets : EReport(id, cur)
  \/ \E id \in Instances : Finish(id)

SpecEntryMerge == InitEntryMerge /\ [][NextEntryMerge]_vars

----------------------------------------------------------------------------
(* Two instances in the plugin list of one compiler, each with a store of
   its own.  The taps of processAssets at the report stage run one after the
   other; each emits its manifest into the compilation the other reads. *)

FileM1 == [name |-> "assets-manifest.json", key |-> <<"assets-manifest", ".json">>,
           ext |-> ".json", grp |-> "json"]
FileM2 == [name |-> "reports/integrity-manifest.json",
           key |-> <<"reports/integrity-manifest", ".json">>,
           ext |-> ".json", grp |-> "json"]

ManifestFiles == {FileM1, FileM2}

\* the compilations a build starts with: no manifest is among the assets
FreshCompilations ==
  {c \in Compilations :
     /\ \A i \in DOMAIN c.assets : ~c.assets[i].manifest /\ ~c.assets[i].hasSrc
     /\ ~c.assets[1].hmr
     /\ c.assets[2].hmr
     /\ c.chunk # <<FileA>>
     /\ c.child = <<>>
     /\ ~c.entrypointsUseAssets}

\* handleProcessAssetsReport up to emitAssetsManifest, on the store of one
\* instance
reportStore(store, o, c) ==
  LET ca == getCompilationAssets(c)
      n1 == processStatsAssets(<<>>, c.assets, 1)
      n2 == processAssetsByChunkName(n1, "main", c.chunk, ca.hmrFiles, 1)
      st == assetLoop(store, o, n2, ca.assets, 1)
      prior == get(st, EntrypointsKey, Undefined)
  IN  IF c.entrypoints
      THEN setRaw(st, EntrypointsKey,
                  Obj(ObjectAssign(IF isObject(prior) THEN prior.f ELSE <<>>,
                                   entrypointsOf(c, ca.hmrFiles, st, o, n2), 1)))
      ELSE st

\* compilation.emitAsset(output, source, { assetsManifest: true, ... })
emitAsset(as, file) ==
  LET asset == CompAsset(file, FALSE, TRUE, FALSE)
  IN  IF \E i \in DOMAIN as : as[i].file.name = file.name
      THEN [i \in DOMAIN as |-> IF as[i].file.name = file.name THEN asset ELSE as[i]]
      ELSE Append(as, asset)

InitManifests ==
  /\ opts \in {o \in Options : o.merge = "off" /\ o.publicPath = ""}
  /\ SingleIdle
  /\ MultiIdle
  /\ DiscoveryIdle
  /\ HooksIdle
  /\ SortIdle
  /\ SetupIdle
  /\ heap = [ref \in Refs |-> <<>>]
  /\ inst = [id \in Instances |->
               [id |-> id, assets |-> Own(id), optAssets |-> Own(id),
                pc |-> "applied"]]
  /\ watching \in BOOLEAN
  /\ given \in [output : [Instances -> ManifestFiles], n : {0}]
  /\ answer = [id \in Instances |-> <<>>]

\* the compiler starts a build: in watch mode watchRun calls handleWatchRun
\* of both instances; a new compilation is created
MCompile(c) ==
  /\ given.n < MaxBuilds
  /\ \A id \in Instances : inst[id].pc \in {"applied", "done"}
  /\ comp' = c
  /\ heap' = IF watching
             THEN [ref \in Refs |-> IF \E id \in Instances : inst[id].assets = ref
                                    THEN <<>> ELSE heap[ref]]
             ELSE heap
  /\ inst' = [id \in Instances |-> [inst[id] EXCEPT !.pc = "started"]]
  /\ given' = [given EXCEPT !.n = @ + 1]
  /\ UNCHANGED <<single, multi, hooks, sorting, setup, watching, assetNames, answer>>

\* the processAssets tap of instance id at the report stage:
\* handleProcessAssetsReport with emitAssetsManifest
MReport(id) ==
  /\ inst[id].pc = "started"
  /\ LET st == reportStore(View(id), opts, comp)
     IN  /\ heap' = [heap EXCEPT ![inst[id].assets] = st]
         /\ answer' = [answer EXCEPT ![id] = st]
  /\ comp' = [comp EXCEPT !.assets = emitAsset(@, given.output[id])]
  /\ inst' = [inst EXCEPT ![id].pc = "reported"]
  /\ UNCHANGED <<single, multi, hooks, sorting, setup, watching, assetNames, given>>

\* the build is done
MDone ==
  /\ \A id \in Instances : inst[id].pc = "reported"
  /\ inst' = [id \in Instances |-> [inst[id] EXCEPT !.pc = "done"]]
  /\ UNCHANGED <<single, multi, hooks, sorting, extras, discovery, heap, watching>>

NextManifests ==
  \/ \E c \in FreshCompilations : MCompile(c)
  \/ \E id \in Instances : MReport(id)
  \/ MDone

SpecManifests == InitManifests /\ [][NextManifests]_vars

----------------------------------------------------------------------------
(* The decision of handleAfterEmit to write the manifest with fs.  A path is
   a sequence of segments, a segment a sequence of characters. *)

OutputDir == <<<<"a">>, <<"d">>>>

ManifestPaths ==
  {<<<<"a">>, <<"d">>, <<"m">>>>,
   <<<<"a">>, <<"d">>, <<"s">>, <<"m">>>>,
   <<<<"a">>, <<"m">>>>,
   <<<<"a">>, <<"o">>, <<"m">>>>,
   <<<<"a">>, <<"d">>, <<".", ".", "c">>, <<"m">>>>}

\* the segments of from are the first segments of to
IsPrefix(from, to) ==
  Len(from) <= Len(to) /\ \A i \in DOMAIN from : from[i] = to[i]

\* path.relative(from, to), as segments
relative(from, to) ==
  LET same == {k \in 0..Len(from) : k <= Len(to) /\ \A i \in 1..k : from[i] = to[i]}
      k == CHOOSE n \in same : \A other \in same : other <= n
  IN  [i \in 1..(Len(from) - k) |-> <<".", ".">>] \o SubSeq(to, k + 1, Len(to))

RECURSIVE joinPath(_)
\* the segments joined with the separator
joinPath(segments) ==
  IF segments = <<>> THEN <<>>
  ELSE IF Len(segments) = 1 THEN segments[1]
  ELSE segments[1] \o <<"/">> \o joinPath(Tail(segments))

\* String.prototype.startsWith
startsWith(s, prefix) ==
  Len(prefix) <= Len(s) /\ SubSeq(s, 1, Len(prefix)) = prefix

\* devServer.devMiddleware.writeToDisk and devServer.writeToDisk: unset, a
\* boolean, or a predicate (true for every path, for none, for the paths
\* under the output directory)
WriteToDiskSettings == {"undefined", "true", "false", "fnAll", "fnNone", "fnInside"}

DevServers ==
  {[present |-> FALSE, devMiddleware |-> FALSE, middleware |-> "undefined",
    top |-> "undefined"]}
  \cup [present : {TRUE}, devMiddleware : {TRUE}, middleware : WriteToDiskSettings,
        top : WriteToDiskSettings]
  \cup [present : {TRUE}, devMiddleware : {FALSE}, middleware : {"undefined"},
        top : WriteToDiskSettings]

\* calling a predicate setting with filePath
callWriteToDisk(setting, filePath) ==
  CASE setting = "fnAll" -> TRUE
    [] setting = "fnNone" -> FALSE
    [] setting = "fnInside" -> IsPrefix(OutputDir, filePath)

\* compilation.options.devServer
\*   ? (devServer.devMiddleware?.writeToDisk ?? devServer.writeToDisk)
\*   : undefined
wdsWriteToDisk(g) ==
  IF ~g.devServer.present THEN "undefined"
  ELSE IF g.devServer.devMiddleware /\ g.devServer.middleware # "undefined"
       THEN g.devServer.middleware
       ELSE g.devServer.top

\* a decision that does not ask whether a dev server runs
shouldWriteToDiskAnywhere(g) ==
  IF g.writeToDisk = "auto"
  THEN LET wds == wdsWriteToDisk(g)
       IN  IF wds = "true" THEN FALSE
           ELSE IF wds \in {"fnAll", "fnNone", "fnInside"}
                   /\ callWriteToDisk(wds, g.manifestPath)
                THEN FALSE
           ELSE IF g.hasOutputPath
                THEN startsWith(joinPath(relative(OutputDir, g.manifestPath)),
                                <<".", ".">>)
           ELSE FALSE
  ELSE g.writeToDisk = "true"

\* shouldWriteToDisk(compilation)
shouldWriteToDisk(g) ==
  IF g.writeToDisk = "auto"
  THEN IF g.inDevServer
       THEN LET wds == wdsWriteToDisk(g)
            IN  IF wds = "true" THEN FALSE
                ELSE IF wds \in {"fnAll", "fnNone", "fnInside"}
                        /\ callWriteToDisk(wds, g.manifestPath)
                     THEN FALSE
                ELSE IF g.hasOutputPath
                     THEN startsWith(joinPath(relative(OutputDir, g.manifestPath)),
                                     <<".", ".">>)
                ELSE FALSE
       ELSE FALSE
  ELSE g.writeToDisk = "true"

InitDecision ==
  /\ opts \in {o \in Options : o.merge = "off" /\ ~o.integrity /\ o.publicPath = ""}
  /\ SingleIdle
  /\ MultiIdle
  /\ SharedIdle
  /\ DiscoveryIdle
  /\ HooksIdle
  /\ SortIdle
  /\ SetupIdle
  /\ given \in [writeToDisk : {"auto", "true", "false"}, inDevServer : BOOLEAN,
                devServer : DevServers, hasOutputPath : BOOLEAN,
                manifestPath : ManifestPaths]
  /\ answer = NoAnswer

\* handleAfterEmit: writeTo is called when shouldWriteToDisk says so
handleAfterEmit ==
  /\ ~answer.done
  /\ answer' = [done |-> TRUE, wrote |-> shouldWriteToDisk(given)]
  /\ UNCHANGED <<single, multi, shared, discovery, hooks, sorting, setup, given>>

NextDecision == handleAfterEmit

SpecDecision == InitDecision /\ [][NextDecision]_vars

----------------------------------------------------------------------------
(* The key of an asset the index has no original name for.  File names are
   spelled character by character, with / the separator. *)

\* a basename that cuts nothing
basenameWhole(p) == p

\* path.basename(p)
basename(p) ==
  LET cuts == {i \in DOMAIN p : p[i] = "/"}
  IN  IF cuts = {} THEN p
      ELSE SubSeq(p, (CHOOSE i \in cuts : \A j \in cuts : j <= i) + 1, Len(p))

\* asset.info.sourceFilename: unset, or a path relative to the context
NoHint == [set |-> FALSE, path |-> <<>>]
Hint(path) == [set |-> TRUE, path |-> path]

SourceFilenames ==
  {NoHint,
   Hint(<<>>),
   Hint(<<"g", ".", "j">>),
   Hint(<<"t", "/", "g", ".", "j">>),
   Hint(<<"t", "/", "u", "/", "g", ".", "j">>),
   Hint(<<"t", "\\", "g", ".", "j">>)}

\* the assets: final name as text and character by character
FinalNames ==
  {[name |-> "g-H.j", key |-> <<"g", "-", "H", ".", "j">>],
   [name |-> "i/g-H.j", key |-> <<"i", "/", "g", "-", "H", ".", "j">>]}

\* sourceFilename ? (contextRelativeKeys ? sourceFilename
\*                                       : basename(sourceFilename))
\*                : asset.name
fallbackName(asset, contextRelativeKeys) ==
  IF asset.sourceFilename.set /\ asset.sourceFilename.path # <<>>
  THEN IF contextRelativeKeys THEN asset.sourceFilename.path
       ELSE basename(asset.sourceFilename.path)
  ELSE asset.file.key

\* the keys the loop of the report phase passes to set for one asset
sourceFilenamesOf(names, asset, contextRelativeKeys) ==
  LET found == findAssetKeys(names, asset.file.name)
  IN  IF Len(found) = 0 THEN <<fallbackName(asset, contextRelativeKeys)>> ELSE found

InitFallback ==
  /\ opts \in {o \in Options : o.merge = "off"}
  /\ SingleIdle
  /\ MultiIdle
  /\ SharedIdle
  /\ comp = <<>>
  /\ assetNames \in {<<>>, <<Field(<<"o", ".", "j">>, "o-H.j")>>}
  /\ HooksIdle
  /\ SortIdle
  /\ SetupIdle
  /\ given \in [file : FinalNames, sourceFilename : SourceFilenames,
                contextRelativeKeys : BOOLEAN]
  /\ answer = NoAnswer

\* the loop of handleProcessAssetsReport for the one asset of the compilation
ReportAsset ==
  /\ ~answer.done
  /\ LET keys == sourceFilenamesOf(assetNames, given, given.contextRelativeKeys)
     IN  answer' = [done |-> TRUE, keys |-> keys,
                    store |-> setEach(<<>>, opts, AsCurrent(opts, given), keys,
                                      Str(given.file.name), 1)]
  /\ UNCHANGED <<single, multi, shared, discovery, hooks, sorting, setup, given>>

NextFallback == ReportAsset

SpecFallback == InitFallback /\ [][NextFallback]_vars

----------------------------------------------------------------------------
(* The records of the discovery sources, taken in one order or another.  A
   record is an original name and the output name it was observed for. *)

\* the records of one build in the order the code makes them: the loader
\* emissions, the stats assets with a sourceFilename, the files of the chunk
\* that are no hot-module-replacement files
recordsOf(c, byLoader) ==
  LET ca == getCompilationAssets(c)
      stats == SelectSeq(c.assets, LAMBDA a : a.hasSrc)
      chunk == SelectSeq(c.chunk, LAMBDA f : f.name \notin ca.hmrFiles)
  IN  [i \in DOMAIN byLoader |-> Field(SrcKey(byLoader[i]), byLoader[i].name)]
      \o [i \in DOMAIN stats |-> Field(SrcKey(stats[i].file), stats[i].file.name)]
      \o [i \in DOMAIN chunk |-> Field(ChunkKey("main", chunk[i]), chunk[i].name)]

RECURSIVE distinct(_, _)
\* the records without repetitions, from the i-th on
distinct(records, i) ==
  IF i > Len(records) THEN <<>>
  ELSE IF \E j \in 1..(i - 1) : records[j] = records[i]
       THEN distinct(records, i + 1)
       ELSE <<records[i]>> \o distinct(records, i + 1)

\* the orders n records can come in
Orders(n) == {p \in [1..n -> 1..n] : \A i, j \in 1..n : i # j => p[i] # p[j]}

\* this.assetNames.set(key, name) for every record, in the order given
indexOf(records, order) ==
  ObjectAssign(<<>>, [i \in DOMAIN order |-> records[order[i]]], 1)

\* the store after the loop of the report phase over an index
storeOf(o, c, names) == assetLoop(<<>>, o, names, getCompilationAssets(c).assets, 1)

EmittedLists == {<<>>, <<FileA>>, <<FileH>>, <<FileA, FileH>>}

OrderedCompilations ==
  {c \in Compilations :
     /\ \A i \in DOMAIN c.assets : ~c.assets[i].manifest /\ ~c.assets[i].hmr
     /\ c.child = <<>>
     /\ ~c.entrypoints
     /\ ~c.entrypointsUseAssets}

InitOrder ==
  /\ opts \in {o \in Options : o.merge = "off" /\ ~o.integrity /\ o.publicPath = ""}
  /\ SingleIdle
  /\ MultiIdle
  /\ SharedIdle
  /\ DiscoveryIdle
  /\ HooksIdle
  /\ SortIdle
  /\ SetupIdle
  /\ \E c \in OrderedCompilations, byLoader \in EmittedLists :
       \E order \in Orders(Len(distinct(recordsOf(c, byLoader), 1))) :
         given = [c |-> c, records |-> distinct(recordsOf(c, byLoader), 1),
                  order |-> order]
  /\ answer = NoAnswer

\* the report phase over the index the records leave in the order of the
\* code and in the order given
Reconcile ==
  /\ ~answer.done
  /\ answer' =
       [done |-> TRUE,
        inCodeOrder |->
          storeOf(opts, given.c,
                  indexOf(given.records, [i \in DOMAIN given.records |-> i])),
        inOrder |-> storeOf(opts, given.c, indexOf(given.records, given.order))]
  /\ UNCHANGED <<single, multi, shared, discovery, hooks, sorting, setup, given>>

NextOrder == Reconcile

SpecOrder == InitOrder /\ [][NextOrder]_vars

----------------------------------------------------------------------------
(* The manifest store: claims C1 to C6, checked under Spec *)

\* key with every backslash replaced by a forward slash
Normalized(key) ==
  [i \in 1..Len(key) |-> IF key[i] = "\\" THEN "/" ELSE key[i]]

\* value after public-path rewriting: a string gets the prefix, any other
\* value is left as it is
Rewritten(value) ==
  IF value.t = "str" THEN Str(opts.publicPath \o value.s) ELSE value

\* post is pre with exactly one entry stored: key maps to value and every
\* other key is as it was
StoredOnly(pre, post, key, value) ==
  /\ hasOwn(post, key) /\ Prop(post, key) = value
  /\ \A k \in KeysOf(pre) \cup KeysOf(post) :
       k # key => /\ hasOwn(post, k) <=> hasOwn(pre, k)
                  /\ Prop(post, k) = Prop(pre, k)

\* the last call was set(key, value) outside raw-merge mode and the customize
\* waterfall returned a result
SetReturned ==
  /\ last.op = "set"
  /\ ~(last.merging /\ opts.merge # "customize")
  /\ last.r.t # "throw"

\* the key and the value the result of the waterfall stands for
ResultKey ==
  IF last.r.t = "obj" /\ last.r.hasKey THEN last.r.key ELSE Normalized(last.key)
ResultValue ==
  IF last.r.t = "obj" /\ last.r.hasValue THEN last.r.value ELSE Rewritten(last.value)
ResultIsPair ==
  last.r.t = "undefined" \/ (last.r.t = "obj" /\ (last.r.hasKey \/ last.r.hasValue))

\* {src: value, integrity: d}, d the digest recorded on the current asset
WithIntegrity(value) ==
  Obj(<<Field("src", value),
        Field("integrity",
              Str(IF last.cur.present /\ last.cur.hasDigest
                  THEN last.cur.digest ELSE ""))>>)

\* C1 as stated: outside raw-merge mode set(key, value) stores nothing when
\* the waterfall result r is false, stores r.value under r.key (defaults: the
\* rewritten value, the normalized key) when r has a key or a value field,
\* and stores the rewritten value under the normalized key for any other r.
C1_AsStated ==
  SetReturned =>
    IF last.r.t = "false" THEN assets = last.pre
    ELSE IF ResultIsPair
    THEN StoredOnly(last.pre, assets, ResultKey, ResultValue)
    ELSE StoredOnly(last.pre, assets, Normalized(last.key), Rewritten(last.value))

\* C1 amended: as C1, but when r has a key or a value field, integrity is
\* enabled and the value to store equals the rewritten value, the value stored
\* under r.key is {src: that value, integrity: the current asset's digest or ""}.
C1_SetDeterminedByResult ==
  SetReturned =>
    IF last.r.t = "false" THEN assets = last.pre
    ELSE IF ResultIsPair
    THEN StoredOnly(last.pre, assets, ResultKey,
                    IF opts.integrity /\ ResultValue = Rewritten(last.value)
                    THEN WithIntegrity(ResultValue) ELSE ResultValue)
    ELSE StoredOnly(last.pre, assets, Normalized(last.key), Rewritten(last.value))

C1_Witness ==
  /\ SetReturned
  /\ last.r.t = "obj" /\ last.r.hasKey /\ ~last.r.hasValue
  /\ last.key = K_back /\ last.value.t = "str"
  /\ opts.publicPath # "" /\ opts.integrity
  /\ last.pre # <<>>

\* C2 as stated: if customize returns false for set(key, value), then after the
\* call has(key) is false and the store has as many entries as before.
C2_AsStated ==
  (SetReturned /\ last.r.t = "false") =>
    /\ ~has(assets, last.key)
    /\ Len(assets) = Len(last.pre)

\* C2 amended: if customize returns false for set(key, value), then has(key) is
\* after the call what it was before (false when the key was not in the store)
\* and the store has as many entries as before.
C2_DropLeavesStore ==
  (SetReturned /\ last.r.t = "false") =>
    /\ has(assets, last.key) <=> has(last.pre, last.key)
    /\ Len(assets) = Len(last.pre)

C2_Witness ==
  /\ SetReturned /\ last.r.t = "false" /\ last.called
  /\ last.pre # <<>>
  /\ ~has(last.pre, last.key)

\* C3: after set(k, v) that is not dropped or re-keyed by customize and is not
\* made in raw-merge mode, has(k) and has(k with backslashes replaced) hold.
C3_HasBothForms ==
  (/\ SetReturned
   /\ last.r.t # "false"
   /\ ResultKey = Normalized(last.key)) =>
    /\ has(assets, last.key)
    /\ has(assets, Normalized(last.key))

C3_Witness ==
  /\ SetReturned /\ last.r.t # "false" /\ ResultKey = Normalized(last.key)
  /\ last.key = K_back
  /\ ~has(last.pre, K_back)

\* C4: delete(key) returns true exactly when has(key) held before the call,
\* and after it has(key) is false.
C4_DeleteRemoves ==
  last.op = "delete" =>
    /\ last.ret <=> has(last.pre, last.key)
    /\ ~has(assets, last.key)

\* C5 as stated: with integrity enabled and the waterfall not overriding the
\* value, set(k, v) stores {src: rewritten v, integrity: d}, d the digest
\* recorded on the current asset, "" without a current asset or a digest.
C5_AsStated ==
  (/\ last.op = "set" /\ last.r.t \notin {"throw", "false"}
   /\ opts.integrity
   /\ ResultValue = Rewritten(last.value)) =>
    \E k \in KeysOf(assets) :
      Prop(assets, k) = WithIntegrity(Rewritten(last.value))

\* C5 amended: with integrity enabled, outside raw-merge mode, when the
\* waterfall result has a key or a value field and its value is absent or
\* equal to the rewritten v, set(k, v) stores {src: rewritten v, integrity: d}
\* under the result's key (default: the normalized k), d as in C5.
C5_IntegrityWrap ==
  (/\ SetReturned /\ ResultIsPair
   /\ opts.integrity
   /\ ResultValue = Rewritten(last.value)) =>
    Prop(assets, ResultKey) = WithIntegrity(Rewritten(last.value))

C5_Witness ==
  /\ SetReturned /\ ResultIsPair /\ opts.integrity
  /\ ResultValue = Rewritten(last.value)
  /\ last.cur.present /\ last.cur.hasDigest
  /\ opts.publicPath # ""

\* C6: setRaw(k, v) stores v under the literal key k, without normalization,
\* rewriting or wrapping, never calls the customize hook, and leaves every
\* other entry unchanged.
C6_SetRawLiteral ==
  last.op = "setRaw" =>
    /\ StoredOnly(last.pre, assets, last.key, last.value)
    /\ ~last.called

C6_Witness ==
  /\ last.op = "setRaw"
  /\ last.key = K_back /\ last.value.t = "str"
  /\ opts.publicPath # "" /\ opts.integrity
  /\ last.pre # <<>>

----------------------------------------------------------------------------
(* The merge and the lock: claims C7 to C10, checked under SpecBuild *)

\* the merge loop has run to its end and nothing has happened since
MergeDone == merged.done /\ pc = "emit"

\* key maps to value in store, under its literal or its normalized form
MapsTo(store, key, value) ==
  \/ hasOwn(store, key) /\ Prop(store, key) = value
  \/ hasOwn(store, Normalized(key)) /\ Prop(store, Normalized(key)) = value

\* the values the file holds for key, under the key itself or under a key
\* that normalizes to it
OnDisk(key) ==
  {merged.data[i].v :
     i \in {j \in DOMAIN merged.data :
              key \in {merged.data[j].k, Normalized(merged.data[j].k)}}}

\* C7: after a successful merge every key of the file that the store did not
\* have maps to the file's value, every entry the store had whose fresh value
\* or on-disk value is not a structured object keeps its fresh value, and no
\* key is present that came from neither the store nor the file.
C7_MergeResult ==
  MergeDone =>
    /\ \A i \in DOMAIN merged.data :
         ~has(merged.pre, merged.data[i].k) =>
           MapsTo(assets, merged.data[i].k, merged.data[i].v)
    /\ \A k \in KeysOf(merged.pre) :
         (\/ Prop(merged.pre, k).t # "obj"
          \/ \A v \in OnDisk(k) : v.t # "obj") =>
           hasOwn(assets, k) /\ Prop(assets, k) = Prop(merged.pre, k)
    /\ \A k \in KeysOf(assets) :
         \/ k \in KeysOf(merged.pre)
         \/ \E i \in DOMAIN merged.data :
              k \in {merged.data[i].k, Normalized(merged.data[i].k)}

RECURSIVE IsDeepMerge(_, _, _)
\* result is the deep merge of old and fresh: fields on one side only are
\* kept, two objects are merged field by field, and otherwise the fresh
\* field (a scalar, or an array as a whole) replaces the old one
IsDeepMerge(result, old, fresh) ==
  /\ result.t = "obj"
  /\ KeysOf(result.f) = KeysOf(old.f) \cup KeysOf(fresh.f)
  /\ \A n \in KeysOf(result.f) :
       IF ~hasOwn(fresh.f, n) THEN Prop(result.f, n) = Prop(old.f, n)
       ELSE IF ~hasOwn(old.f, n) THEN Prop(result.f, n) = Prop(fresh.f, n)
       ELSE IF Prop(old.f, n).t = "obj" /\ Prop(fresh.f, n).t = "obj"
       THEN IsDeepMerge(Prop(result.f, n), Prop(old.f, n), Prop(fresh.f, n))
       ELSE Prop(result.f, n) = Prop(fresh.f, n)

\* C8 as stated: for a key present in the file and in the store with two
\* structured objects as values, the value after the merge is the deep merge
\* of old and fresh in which a fresh array replaces the old array.
C8_AsStated ==
  MergeDone =>
    \A i \in DOMAIN merged.data :
      LET k == merged.data[i].k
          old == merged.data[i].v
          fresh == Prop(merged.pre, k)
      IN  (hasOwn(merged.pre, k) /\ old.t = "obj" /\ fresh.t = "obj") =>
            /\ hasOwn(assets, k)
            /\ IsDeepMerge(Prop(assets, k), old, fresh)

\* C8 amended: with merge = true, for a key present in the file and in the
\* store with two structured objects as values, the value stored under that
\* key after the merge is the deep merge of old and fresh in which a fresh
\* array replaces the old array.
C8_DeepMergeRaw ==
  (MergeDone /\ opts.merge = "on") =>
    \A i \in DOMAIN merged.data :
      LET k == merged.data[i].k
          old == merged.data[i].v
          fresh == Prop(merged.pre, k)
      IN  (hasOwn(merged.pre, k) /\ old.t = "obj" /\ fresh.t = "obj") =>
            /\ hasOwn(assets, k)
            /\ IsDeepMerge(Prop(assets, k), old, fresh)

C8_Witness ==
  /\ MergeDone /\ opts.merge = "on"
  /\ \E i \in DOMAIN merged.data :
       LET k == merged.data[i].k
           old == merged.data[i].v
           fresh == Prop(merged.pre, k)
       IN  /\ hasOwn(merged.pre, k) /\ old.t = "obj" /\ fresh.t = "obj"
           /\ Prop(old.f, "a") = Arr(<<1, 2>>)
           /\ Prop(fresh.f, "a") = Arr(<<3>>)
           /\ hasOwn(old.f, "b") /\ ~hasOwn(fresh.f, "b")
           /\ Prop(Prop(assets, k).f, "a") = Arr(<<3>>)

C10_LockReleased ==
  pc \in {"failed", "emitted", "done"} => ~lockHeld

----------------------------------------------------------------------------
(* Builds that share a destination or a store: claims C11 to C13 *)

\* C11: with merge on and two builds writing one destination file, once both
\* builds are over the file holds the entries of both builds.
C11_NoLostUpdate ==
  (\A b \in Builds : proc[b].pc = "done") =>
    \A b \in Builds : \A i \in DOMAIN proc[b].fresh :
      has(disk, proc[b].fresh[i].k)

\* C12: instances constructed with the same assets object share one store in
\* every reachable state: after any set, setRaw, delete, clear and apply
\* calls each instance's view has the same entries, and every instance still
\* refers to the object it was constructed with.
C12_OneStore ==
  \A id \in Instances :
    /\ inst[id].assets = SharedRef
    /\ \A other \in Instances : View(id) = View(other)

C12_Witness ==
  \A id \in Instances :
    /\ inst[id].pc = "applied"
    /\ hasOwn(View(id), K_c)
    /\ ~hasOwn(View(id), K_back)

\* C13: when two builds share one store, then once both builds have finished
\* their report phase the store holds the entries of both builds, for every
\* interleaving of run or watch-run start, report and emit.
C13_BothBuildsKept ==
  (\A id \in Instances : inst[id].pc \in {"reported", "done"}) =>
    \A id \in Instances : \A i \in DOMAIN ReportEntries(id) :
      has(heap[SharedRef], ReportEntries(id)[i].k)

----------------------------------------------------------------------------
(* Discovery and report: claim C14, checked under SpecReport *)

RECURSIVE Mentions(_, _)
\* value is, or lists somewhere, the name of file or its public path
Mentions(value, file) ==
  IF value.t = "str"
  THEN value.s \in {file.name, getPublicPath(opts, file.name)}
  ELSE IF value.t = "arr"
  THEN \E i \in DOMAIN value.a : Mentions(value.a[i], file)
  ELSE IF value.t = "obj"
  THEN \E i \in DOMAIN value.f : Mentions(value.f[i].v, file)
  ELSE FALSE

\* C14: no asset flagged as hot-module-replacement is a key or a value of an
\* entry that discovery and report put into the store, top-level entries and
\* entrypoints lists alike, whichever source recorded it.
C14_NoHmrEntry ==
  comp.phase = "reported" =>
    \A i \in DOMAIN comp.assets :
      comp.assets[i].hmr =>
        \A e \in DOMAIN assets :
          /\ assets[e].k # comp.assets[i].file.key
          /\ ~Mentions(assets[e].v, comp.assets[i].file)

C14_Witness ==
  /\ comp.phase = "reported"
  /\ comp.assets[2].hmr /\ comp.assets[2].hasSrc /\ ~comp.assets[1].hmr
  /\ comp.chunk = <<FileA, FileH>> /\ comp.child = <<FileB, FileH>>
  /\ comp.entrypoints
  /\ \E e \in DOMAIN assetNames : assetNames[e].v = FileH.name
  /\ hasOwn(assets, EntrypointsKey)
  /\ Len(assets) >= 2

----------------------------------------------------------------------------
(* The extension points: claims C15 to C19, checked under SpecHooks *)

\* the place of a hook call in the order of one build
Rank(h) ==
  CASE h = "options" -> 0
    [] h = "afterOptions" -> 1
    [] h = "apply" -> 2
    [] h = "customize" -> 3
    [] h \in {"transform", "emitAsset", "writeFile"} -> 4
    [] h = "done" -> 5

\* the positions of the calls of hook h in the log of compiler c
Calls(c, h) == {i \in DOMAIN hlog[c] : hlog[c][i].h = h}

\* C15: in every build the hook calls come in the order options, afterOptions,
\* apply, the customize calls of the build's entries, transform and the
\* serialization, done; every emit and every write is directly preceded by
\* its transform call, and done comes after the manifest asset was emitted,
\* and after it was written when writeTo runs.
C15_HookOrder ==
  \A c \in Compilers :
    /\ \A i, j \in DOMAIN hlog[c] :
         i < j => Rank(hlog[c][i].h) <= Rank(hlog[c][j].h)
    /\ \A j \in Calls(c, "emitAsset") \cup Calls(c, "writeFile") :
         j > 1 /\ hlog[c][j - 1].h = "transform"
    /\ \A j \in Calls(c, "done") :
         /\ \E i \in Calls(c, "emitAsset") : i < j
         /\ hstate[c].write => \E i \in Calls(c, "writeFile") : i < j

\* a build that set a fresh entry, merged an entry of the file through
\* customize, emitted, wrote to disk and is done
C15_Witness ==
  \E c \in Compilers :
    /\ hstate[c].pc = "done"
    /\ hstate[c].write
    /\ \E i, j \in Calls(c, "customize") :
         hlog[c][i].origin = "fresh" /\ hlog[c][j].origin = "merge"
    /\ Calls(c, "writeFile") # {}

\* the hooks that callbacks given in options are tapped on
Supplied == {"apply", "customize", "transform", "done"}

\* C16: each callback given in options is tapped once however many times the
\* instance is applied, so every call of a hook runs it once: once per set
\* call outside raw-merge mode, once per completed build.
C16_RegisteredOnce ==
  /\ \A h \in DOMAIN taps : taps[h] <= 1
  /\ \A c \in DOMAIN hlog : \A i \in DOMAIN hlog[c] :
       hlog[c][i].h \in Supplied => hlog[c][i].n = 1
  /\ \A c \in DOMAIN hstate :
       hstate[c].pc = "done" => Cardinality(Calls(c, "done")) = 1

\* C17: a build that has emitted, and written when writeTo runs, has called
\* hooks.transform exactly once.
C17_TransformOnce ==
  \A c \in DOMAIN hstate :
    hstate[c].pc \in {"finishing", "done"} => Cardinality(Calls(c, "transform")) = 1

RECURSIVE RestoredRaw(_, _, _)
\* from the i-th entry of data on, every entry whose key the store lacks at
\* its turn is stored under its literal key with the value of the file, and
\* nothing else changes
RestoredRaw(store, data, i) ==
  \/ i > Len(data)
  \/ LET step == mergeStep(store, opts, data, NoTaps(data), i)
     IN  /\ ~has(store, data[i].k) =>
              StoredOnly(store, step.assets, data[i].k, data[i].v)
         /\ RestoredRaw(step.assets, data, i + 1)

\* C18: with merge = true no customize call happens while #isMerging is set,
\* none is made for an entry of the file, and every entry the merge restores
\* is stored under its literal key with its value untouched.
C18_MergeSkipsCustomize ==
  opts.merge = "on" =>
    /\ \A c \in DOMAIN hlog : \A i \in DOMAIN hlog[c] :
         hlog[c][i].h = "customize" =>
           ~hlog[c][i].merging /\ hlog[c][i].origin # "merge"
    /\ \A c \in DOMAIN hstate :
         hstate[c].merge.done =>
           RestoredRaw(hstate[c].merge.pre, hstate[c].merge.data, 1)

\* a build with merge = true has set a fresh entry through customize and
\* restored an entry with a backslash in its key from the file
C18_Witness ==
  /\ opts.merge = "on"
  /\ \E c \in Compilers :
       /\ hstate[c].merge.done
       /\ \E i \in DOMAIN hstate[c].merge.data :
            /\ hstate[c].merge.data[i].k = K_back
            /\ ~has(hstate[c].merge.pre, K_back)
       /\ \E i \in Calls(c, "customize") : hlog[c][i].origin = "fresh"

\* C19: with merge = 'customize' the customize calls for entries of the file
\* see #isMerging set, those for the fresh entries see it clear, every fresh
\* entry gets its call, and within a build the fresh calls come first.
C19_CustomizeFlags ==
  opts.merge = "customize" =>
    \A c \in DOMAIN hstate :
      /\ \A i \in Calls(c, "customize") :
           /\ hlog[c][i].origin = "merge" => hlog[c][i].merging
           /\ hlog[c][i].origin = "fresh" => ~hlog[c][i].merging
      /\ \A i, j \in Calls(c, "customize") :
           hlog[c][i].origin = "fresh" /\ hlog[c][j].origin = "merge" => i < j
      /\ hstate[c].pc \notin {"new", "applied"} =>
           Cardinality({i \in Calls(c, "customize") : hlog[c][i].origin = "fresh"})
             = Len(FreshEntries(c))

----------------------------------------------------------------------------
(* Serialization order: claim C20, checked under SpecSort *)

\* the keys are listed in ascending order by code units
Ascending(keys) ==
  \A i, j \in DOMAIN keys : i < j => StringLess(keys[i], keys[j], 1)

\* C20: the serialized manifest lists its keys in ascending lexical order of
\* the keys alone with sortManifest = true, in insertion order with
\* sortManifest = false, and in the comparator's order with a comparator.
C20_KeyOrder ==
  serialized.done =>
    CASE sortManifest = "true" -> Ascending(serialized.keys)
      [] sortManifest = "false" ->
           serialized.keys = [i \in DOMAIN assets |-> assets[i].k]
      [] sortManifest = "ascending" -> Ascending(serialized.keys)
      [] sortManifest = "descending" ->
           \A i, j \in DOMAIN serialized.keys :
             i < j => StringLess(serialized.keys[j], serialized.keys[i], 1)

----------------------------------------------------------------------------
(* Setup and lifecycle: claims C21 to C25, checked under SpecSetup *)

\* the plugin has done nothing in a build: the store is as user code left it,
\* no manifest asset was emitted, no file written and no hook fired
NothingDone ==
  /\ assets = life.base
  /\ ~emitted
  /\ ~life.manifest.done
  /\ ~life.written
  /\ life.log = <<>>

\* C21: with options that fail schema validation apply() has thrown, no hook
\* of the compiler is tapped and no lifecycle event has any effect.
C21_InvalidOptionsStop ==
  (cfg.shape # "ok" /\ life.pc # "constructed") =>
    life.threw /\ wired = {} /\ NothingDone

\* options with an unknown key, apply() called, and the compiler went through
\* a whole build all the same
C21_Witness ==
  cfg.shape = "unknownKey" /\ cfg.enabled /\ life.threw /\ life.n >= 1

\* integrityHashes names an algorithm that getHashes() does not list
HasUnsupported ==
  \E i \in DOMAIN cfg.integrityHashes : cfg.integrityHashes[i] \notin Supported

\* C22 as stated: an unsupported algorithm name is not fatal, setup proceeds.
C22_AsStated ==
  (cfg.shape = "ok" /\ HasUnsupported /\ life.pc # "constructed") => ~life.threw

\* C22, amended: an unsupported algorithm name fails validation, so apply()
\* throws, taps nothing and no build is processed; with an empty list of
\* algorithms and integrity on, every entry of an asset without integrity
\* info of its own gets the empty string as its integrity value.
C22_HashesValidated ==
  /\ (HasUnsupported /\ life.pc # "constructed") =>
       life.threw /\ wired = {} /\ NothingDone
  /\ (life.manifest.done /\ opts.integrity /\ cfg.integrityHashes = <<>>
        /\ life.before = "" /\ life.pc = "reported") =>
       \A i \in DOMAIN SetupEntries(life.n) :
         Prop(life.manifest.store, SetupEntries(life.n)[i].k) =
           Obj(<<Field("src", SetupEntries(life.n)[i].v), Field("integrity", Str(""))>>)

\* a list with an unsupported name beside a supported one, apply() called,
\* and the compiler went through a whole build
C22_Witness ==
  /\ cfg.shape = "ok" /\ cfg.enabled
  /\ cfg.integrityHashes = <<"sha256", "bogus">>
  /\ opts.integrity
  /\ life.threw /\ life.n >= 1

\* C23: with enabled = false no lifecycle event changes the store, emits a
\* manifest asset, writes a file or fires customize, transform or done.
C23_DisabledDoesNothing ==
  (~cfg.enabled /\ life.pc # "constructed") => wired = {} /\ NothingDone

\* valid options with enabled = false, an entry set by user code, and two
\* builds gone through
C23_Witness ==
  /\ ~cfg.enabled /\ cfg.shape = "ok" /\ ~HasUnsupported
  /\ ~life.threw
  /\ assets # <<>>
  /\ life.n >= 2

\* C24: an entry set before a build starts is in the store when that build's
\* manifest is serialized, in single-run mode and in watch mode.
C24_PresetKept ==
  (life.pc = "reported" /\ life.manifest.done) =>
    \A key \in life.preset : hasOwn(life.manifest.store, key)

----------------------------------------------------------------------------
(* The entrypoints block: claim C26, checked under SpecEntry *)

\* the group each file belongs to: its extension in lower case without the dot
OwnGroup(name) ==
  CASE name \in {"m.js", "M.JS", "m.js?v", "h.js"} -> <<"j", "s">>
    [] name = "m.css" -> <<"c", "s", "s">>
    [] name = "m.js.map" -> <<"j", "s", ".", "m", "a", "p">>
    [] name = "m" -> <<>>

\* the files of the entry point that are no hot-module-replacement files
Kept == SelectSeq(given.files, LAMBDA f : f.name \notin given.hmrFiles)

\* the lists of the block of entry point main, by group
Lists == answer.entrypoints[1].v.f[1].v.f

\* C26: the lists of an entry point hold each non-HMR file of the entry
\* point once, in the entry point's file order, under the group of its
\* extension in lower case without the dot, and under no other group.
C26_GroupedByExtension ==
  answer.done =>
    /\ \A i \in DOMAIN Kept : \E g \in DOMAIN Lists : Lists[g].k = OwnGroup(Kept[i].name)
    /\ \A g \in DOMAIN Lists :
         LET own == SelectSeq(Kept, LAMBDA f : OwnGroup(f.name) = Lists[g].k)
         IN  /\ own # <<>>
             /\ Lists[g].v.a = [i \in DOMAIN own |->
                                  Str(getPublicPath(opts, own[i].name))]

\* an entry point with an upper-case extension, a second group and a
\* hot-module-replacement file has been grouped
C26_Witness ==
  /\ answer.done
  /\ \E i, j, k \in DOMAIN given.files :
       /\ given.files[i].name = "M.JS"
       /\ given.files[j].name = "m.js.map"
       /\ given.files[k].name = "h.js"
  /\ "h.js" \in given.hmrFiles
  /\ Len(Lists) = 2

----------------------------------------------------------------------------
(* Entry points of builds that share a store: claim C27, checked under
   SpecEntryMerge *)

Names(fields) == {fields[i].k : i \in DOMAIN fields}

\* what instance id sees under entrypointsKey
StoredEntrypoints(id) == Prop(View(id), EntrypointsKey)

\* the report phase of the build of instance id takes this step
Reports(id) == inst[id].pc = "started" /\ inst'[id].pc = "reported"

\* the step merges the entry points of the build into the stored value
MergesInto(id) ==
  LET before == StoredEntrypoints(id)
      after == Prop(heap'[inst'[id].assets], EntrypointsKey)
      old == IF isObject(before) THEN before.f ELSE <<>>
  IN  /\ isObject(after)
      /\ Names(after.f) = Names(old) \cup Names(given[id])
      /\ \A name \in Names(given[id]) : Prop(after.f, name) = Prop(given[id], name)
      /\ \A name \in Names(old) \ Names(given[id]) :
           Prop(after.f, name) = Prop(old, name)

\* C27: with entrypointsKey a string, the report phase of a build merges its
\* entry points into the value stored under the key: the names other builds
\* wrote stay, the names of the build get its values, whichever build
\* reports first.
C27_EntrypointsMerged == [][\A id \in Instances : Reports(id) => MergesInto(id)]_vars

\* both builds have reported, the second after the first: main is the second
\* build's, admin is still the first build's
C27_Witness ==
  /\ inst["m1"].pc = "reported"
  /\ inst["m2"].pc = "reported"
  /\ isObject(StoredEntrypoints("m1"))
  /\ Prop(StoredEntrypoints("m1").f, <<"main">>) = EntryMain2
  /\ Prop(StoredEntrypoints("m1").f, <<"admin">>) = EntryOther
  /\ Prop(StoredEntrypoints("m1").f, <<"client">>) = EntryOther

\* the first build reported after the second and replaced its main
C27_WitnessOtherOrder ==
  /\ inst["m1"].pc = "reported"
  /\ inst["m2"].pc = "reported"
  /\ isObject(StoredEntrypoints("m1"))
  /\ Prop(StoredEntrypoints("m1").f, <<"main">>) = EntryMain1
  /\ Prop(StoredEntrypoints("m1").f, <<"client">>) = EntryOther

----------------------------------------------------------------------------
(* Several instances on one compiler: claim C28, checked under SpecManifests *)

RECURSIVE Holds(_, _)
\* value is or contains a string that names one of the files
Holds(value, files) ==
  \/ value.t = "str" /\ \E file \in files :
        value.s \in {file.name, getPublicPath(opts, file.name)}
  \/ \E i \in DOMAIN value.a : Holds(value.a[i], files)
  \/ \E i \in DOMAIN value.f : Holds(value.f[i].v, files)

\* no entry has a manifest file as its key or in its value
FreeOfManifests(store) ==
  \A i \in DOMAIN store :
    /\ \A file \in ManifestFiles : store[i].k # file.key
    /\ ~Holds(store[i].v, ManifestFiles)

\* C28: with several instances on one compiler, neither the store nor the
\* serialized manifest of an instance has the manifest file of an instance,
\* its own or another's, as a key or a value, whichever instance reports
\* first.
C28_NoManifestInManifest ==
  \A id \in Instances : FreeOfManifests(View(id)) /\ FreeOfManifests(answer[id])

\* in a second build the second instance has reported after the first, with
\* both manifest files among the assets of the compilations it read
C28_Witness ==
  /\ given.n = 2
  /\ given.output["m1"] # given.output["m2"]
  /\ inst["m1"].pc = "reported"
  /\ inst["m2"].pc = "reported"
  /\ answer["m2"] # <<>>
  /\ \A file \in ManifestFiles :
       \E i \in DOMAIN comp.assets : comp.assets[i].file = file /\ comp.assets[i].manifest

----------------------------------------------------------------------------
(* Writing to disk in 'auto' mode: claim C29, checked under SpecDecision *)

\* the dev server is configured to persist the manifest file
Persists(g) ==
  \/ wdsWriteToDisk(g) = "true"
  \/ wdsWriteToDisk(g) = "fnAll"
  \/ wdsWriteToDisk(g) = "fnInside" /\ g.manifestPath[1] = <<"a">> /\ g.manifestPath[2] = <<"d">>

\* the manifest path is not under the output directory
Outside(g) == g.manifestPath \in {<<<<"a">>, <<"m">>>>, <<<<"a">>, <<"o">>, <<"m">>>>}

\* the path under the output directory whose first segment begins with two dots
DotDotNamed(g) == g.manifestPath = <<<<"a">>, <<"d">>, <<".", ".", "c">>, <<"m">>>>

----------------------------------------------------------------------------
(* The lock of writeTo: claim C30, checked under SpecBuild *)

\* C30: writeTo takes the lock only when merge is on; with merge off the
\* directory is created and the file written with no lock taken or released.
C30_LockOnlyWhenMerging ==
  opts.merge = "off" => (~lockHeld /\ pc \notin {"wlocking", "wunlocking"})

----------------------------------------------------------------------------
(* The keys of the report phase: claims C31 to C33, checked under SpecReport *)

\* the assets the loop of the report phase goes through
Reported(a) == ~a.hmr /\ ~a.manifest

\* what set stores for asset a when no customize tap is registered
StoredFor(a) ==
  IF opts.integrity
  THEN Wrapped(Str(getPublicPath(opts, a.file.name)), AsCurrent(opts, a))
  ELSE Str(getPublicPath(opts, a.file.name))

\* the original names the index holds for asset a
OriginalNames(a) == {assetNames[e].k : e \in {n \in DOMAIN assetNames : assetNames[n].v = a.file.name}}

\* the keys of the store whose value is that of asset a
KeysHolding(a) == {assets[e].k : e \in {n \in DOMAIN assets : assets[n].v = StoredFor(a)}}

----------------------------------------------------------------------------
(* The key of an asset without an original name: claim C32, checked under
   SpecFallback *)

\* the last segment of each hint of the model
LastSegment(path) ==
  CASE path \in {<<"g", ".", "j">>, <<"t", "/", "g", ".", "j">>,
                 <<"t", "/", "u", "/", "g", ".", "j">>} -> <<"g", ".", "j">>
    [] OTHER -> path

\* C32: for an asset with no original name in the index the report phase
\* uses one key: the sourceFilename hint as given when contextRelativeKeys is
\* on, the basename of the hint when it is off, and the asset's own name when
\* there is no hint; the store gets one entry, under that key normalized.
C32_FallbackKey ==
  answer.done =>
    LET hint == given.sourceFilename
        key == IF ~hint.set \/ hint.path = <<>> THEN given.file.key
               ELSE IF given.contextRelativeKeys THEN hint.path
               ELSE LastSegment(hint.path)
    IN  /\ answer.keys = <<key>>
        /\ KeysOf(answer.store) = {fixKey(key)}
        /\ Len(answer.store) = 1

\* a hint with directories was cut to its basename
C32_Witness ==
  /\ answer.done
  /\ ~given.contextRelativeKeys
  /\ given.sourceFilename = Hint(<<"t", "/", "u", "/", "g", ".", "j">>)
  /\ KeysOf(answer.store) = {<<"g", ".", "j">>}

----------------------------------------------------------------------------
(* The index and hot-module-replacement files: claim C33, checked under
   SpecReport *)

\* C33: the index never records, as an output name, a file of the
\* compilation that is flagged as a hot-module-replacement file, whichever
\* source recorded it.
C33_NoHmrInIndex ==
  \A e \in DOMAIN assetNames : \A i \in DOMAIN comp.assets :
    comp.assets[i].hmr => assetNames[e].v # comp.assets[i].file.name

----------------------------------------------------------------------------
(* The order of the discovery records: claim C34, checked under SpecOrder *)

\* the entries of a store as a set
EntrySet(store) == {store[i] : i \in DOMAIN store}

\* C34: the entries of the store after the report phase do not depend on the
\* order in which the discovery sources made their records.
C34_OrderIndependent ==
  answer.done => EntrySet(answer.inCodeOrder) = EntrySet(answer.inOrder)

----------------------------------------------------------------------------
(* The flag isMerging in one build: claim C35, checked under SpecBuild *)

\* C35: isMerging is false before the build, true only while a merge that
\* the merge option started waits for the file, and false in every state
\* after the merge has settled, whether it succeeded or failed at the read,
\* the parse or a customize callback.
C35_MergingFlag ==
  /\ pc = "idle" => ~isMerging
  /\ isMerging => (opts.merge # "off" /\ pc = "reading")
  /\ (pc \notin {"idle", "locking", "reading"}) => ~isMerging

\* the merge failed inside a customize callback and the flag is down
C35_Witness ==
  /\ pc = "failed"
  /\ fault = "customize"
  /\ opts.merge = "customize"
  /\ ~isMerging

----------------------------------------------------------------------------
(* Fresh entries and the flag isMerging: claim C36, checked under SpecHooks *)

\* the build of compiler c runs the loop of its report phase in this step
ReportsFresh(c) ==
  hstate[c].pc = "applied" /\ hstate'[c].pc \in {"locking", "emit"}

\* C36: no set() call for a freshly discovered asset runs while isMerging is
\* true, whichever way the builds of the compilers that share the instance
\* interleave.
C36_FreshNeverWhileMerging ==
  [][\A c \in DOMAIN hstate : ReportsFresh(c) => ~isMerging]_vars

----------------------------------------------------------------------------
(* has and get: claim C37, checked under Spec *)

\* a default no entry has as its value
SomeDefault == Str("some/default.gif")

\* C37: has and get agree: when has(key) is true, get(key, d) is the value
\* stored under the key as given or as normalized and not the default, also
\* for the empty string and the other falsy values; when has(key) is false,
\* get(key, d) is d.
C37_HasGetAgree ==
  \A key \in Keys :
    IF has(assets, key)
    THEN /\ get(assets, key, SomeDefault) # SomeDefault
         /\ \/ hasOwn(assets, key)
               /\ get(assets, key, SomeDefault) = Prop(assets, key)
            \/ hasOwn(assets, fixKey(key))
               /\ get(assets, key, SomeDefault) = Prop(assets, fixKey(key))
    ELSE get(assets, key, SomeDefault) = SomeDefault

----------------------------------------------------------------------------
(* Integrity wrapping through merges: claim C38, checked under SpecMulti *)

\* value has the shape { src, integrity }
IsSri(value) ==
  isObject(value) /\ hasOwn(value.f, "src") /\ hasOwn(value.f, "integrity")

\* the src of value is itself a { src, integrity } object
WrappedTwice(value) == IsSri(value) /\ IsSri(Prop(value.f, "src"))

\* C38: with integrity and merge on and no customize tap, no build and no
\* merge stores or writes a value whose src is itself a { src, integrity }
\* object.
C38_WrappedOnce ==
  opts.integrity =>
    /\ \A b \in DOMAIN proc : \A i \in DOMAIN proc[b].assets :
         ~WrappedTwice(proc[b].assets[i].v)
    /\ \A i \in DOMAIN disk : ~WrappedTwice(disk[i].v)

----------------------------------------------------------------------------
(* Every asset in the manifest: claim C39, checked under SpecReport *)

\* C39: after the report phase, with no customize tap, every asset of the
\* compilation that is neither a hot-module-replacement file nor a manifest
\* is the value of at least one entry of the store.
C39_EveryAssetListed ==
  comp.phase = "reported" =>
    \A i \in DOMAIN comp.assets :
      Reported(comp.assets[i]) => KeysHolding(comp.assets[i]) # {}

----------------------------------------------------------------------------
(* The emit step settles: claim C40, checked under SpecBuildFair *)

\* C40: when the lock grants or times out and every file operation settles,
\* a build that has entered its emit step emits its manifest or fails with an
\* error; it does not stay suspended.
C40_EmitSettles ==
  (pc # "idle") ~> (emitted \/ (pc = "failed" /\ error # "none"))

\* a build that merged the file has emitted its manifest
C40_Witness ==
  /\ opts.merge # "off"
  /\ merged.done
  /\ emitted
  /\ pc = "emitted"

====
